---- MODULE Spec2Model ----
(***************************************************************************)
(* rshell: the interactive run loop (shell.rs), the command parser and     *)
(* executor (command.rs), the job table (jobs.rs) and the pipeline         *)
(* executor (pipes.rs).                                                    *)
(*                                                                         *)
(* A string is a sequence of one-character strings, so that trimming,      *)
(* splitting and tokenizing are computed character by character, as the    *)
(* code computes them.                                                     *)
(***************************************************************************)
EXTENDS Integers, Sequences, FiniteSets, TLC

(***************************************************************************)
(* Bounds of the model.                                                    *)
(***************************************************************************)
\* processes the session may spawn in all
MaxProcs == 3
\* entries the history may grow to
MaxHist == 2
\* background pipeline threads alive at the same time
MaxThreads == 1
\* lines read_line may return to one call of read_input_with_continuation
MaxLines == 3
\* characters typed, one by one, into the text handed to a parser
MaxText == 4
\* the characters typed into the line editor's buffer
MaxBuffer == 3
\* the lines standard input holds when a heredoc body is read
MaxBody == 3

(***************************************************************************)
(* str helpers: char predicates, trim, split (Rust std, used by shell.rs,  *)
(* command.rs and pipes.rs).                                               *)
(***************************************************************************)
Whitespace == {" ", "\t", "\n", "\r"}

MinOf(S) == CHOOSE x \in S : \A y \in S : x <= y
MaxOf(S) == CHOOSE x \in S : \A y \in S : x >= y

NonWsIdx(s) == {i \in 1..Len(s) : s[i] \notin Whitespace}

\* str::trim
Trim(s) ==
    IF NonWsIdx(s) = {} THEN <<>>
    ELSE SubSeq(s, MinOf(NonWsIdx(s)), MaxOf(NonWsIdx(s)))

\* str::trim_start
TrimStart(s) ==
    IF NonWsIdx(s) = {} THEN <<>>
    ELSE SubSeq(s, MinOf(NonWsIdx(s)), Len(s))

\* str::contains(char)
Contains(s, c) == \E i \in 1..Len(s) : s[i] = c

\* str::ends_with(char)
EndsWith(s, c) == Len(s) > 0 /\ s[Len(s)] = c

\* str::split(char): the segments between the occurrences of c
RECURSIVE Split(_, _)
Split(s, c) ==
    IF ~Contains(s, c) THEN <<s>>
    ELSE LET i == MinOf({k \in 1..Len(s) : s[k] = c})
         IN  <<SubSeq(s, 1, i - 1)>> \o Split(SubSeq(s, i + 1, Len(s)), c)

\* str::split_whitespace: the maximal runs of non-whitespace characters
RECURSIVE SplitWhitespace(_)
SplitWhitespace(s) ==
    LET t == TrimStart(s)
    IN  IF t = <<>> THEN <<>>
        ELSE LET ws == {k \in 1..Len(t) : t[k] \in Whitespace}
                 e  == IF ws = {} THEN Len(t) + 1 ELSE MinOf(ws)
             IN  <<SubSeq(t, 1, e - 1)>> \o SplitWhitespace(SubSeq(t, e, Len(t)))

\* [String]::join(" ")
RECURSIVE JoinSpace(_)
JoinSpace(ws) ==
    IF ws = <<>> THEN <<>>
    ELSE IF Len(ws) = 1 THEN ws[1]
    ELSE ws[1] \o <<" ">> \o JoinSpace(Tail(ws))

(***************************************************************************)
(* Words of the command language.                                          *)
(***************************************************************************)
W_cd      == <<"c", "d">>
W_pwd     == <<"p", "w", "d">>
W_echo    == <<"e", "c", "h", "o">>
W_exit    == <<"e", "x", "i", "t">>
W_help    == <<"h", "e", "l", "p">>
W_ls      == <<"l", "s">>
W_cat     == <<"c", "a", "t">>
W_mkdir   == <<"m", "k", "d", "i", "r">>
W_rm      == <<"r", "m">>
W_touch   == <<"t", "o", "u", "c", "h">>
W_clear   == <<"c", "l", "e", "a", "r">>
W_history == <<"h", "i", "s", "t", "o", "r", "y">>
W_jobs    == <<"j", "o", "b", "s">>
W_fg      == <<"f", "g">>
W_bg      == <<"b", "g">>
W_true    == <<"t", "r", "u", "e">>
W_false   == <<"f", "a", "l", "s", "e">>
W_sleep   == <<"s", "l", "e", "e", "p">>
W_nosuch  == <<"z", "z">>
W_X       == <<"X">>
W_and     == <<"&", "&">>
W_or      == <<"|", "|">>
W_semi    == <<";">>
W_amp     == <<"&">>
W_bar     == <<"|">>

(***************************************************************************)
(* command.rs: the tokenizer.                                              *)
(***************************************************************************)
\* the escape table of parse_args_with_state
Unescape(c) ==
    CASE c = "n" -> "\n"
      [] c = "t" -> "\t"
      [] c = "r" -> "\r"
      [] OTHER   -> c

ArgsInit ==
    [args |-> <<>>, current_arg |-> <<>>, in_quotes |-> FALSE,
     quote_char |-> " ", escape_next |-> FALSE]

\* one iteration of the while loop: c is the character, more is
\* chars.peek().is_some()
ArgsStep(st, c, more) ==
    IF st.escape_next THEN
        [st EXCEPT !.current_arg = Append(@, Unescape(c)), !.escape_next = FALSE]
    ELSE IF c = "\\" /\ (st.in_quotes \/ more) THEN
        [st EXCEPT !.escape_next = TRUE]
    ELSE IF c \in {"\"", "'"} /\ ~st.in_quotes THEN
        [st EXCEPT !.in_quotes = TRUE, !.quote_char = c]
    ELSE IF c \in {"\"", "'"} /\ st.in_quotes /\ c = st.quote_char THEN
        [st EXCEPT !.in_quotes = FALSE, !.quote_char = " "]
    ELSE IF c = "\n" /\ st.in_quotes THEN
        [st EXCEPT !.current_arg = Append(@, c)]
    ELSE IF c = " " /\ ~st.in_quotes THEN
        IF st.current_arg # <<>>
        THEN [st EXCEPT !.args = Append(@, st.current_arg), !.current_arg = <<>>]
        ELSE st
    ELSE [st EXCEPT !.current_arg = Append(@, c)]

RECURSIVE ArgsScan(_, _, _)
ArgsScan(text, i, st) ==
    IF i > Len(text) THEN st
    ELSE ArgsScan(text, i + 1, ArgsStep(st, text[i], i < Len(text)))

\* Command::parse_args_with_state: (args, needs_continuation)
parse_args_with_state(text) ==
    LET st == ArgsScan(text, 1, ArgsInit)
    IN  [args |-> IF st.current_arg # <<>> THEN Append(st.args, st.current_arg)
                  ELSE st.args,
         in_quotes |-> st.in_quotes]

parse_args(text) == parse_args_with_state(text).args

needs_line_continuation(text) == parse_args_with_state(text).in_quotes

(***************************************************************************)
(* The operating system as the shell sees it: which programs the search    *)
(* path holds, how each exits and what it writes.                          *)
(***************************************************************************)
\* programs Command::spawn finds; any other name fails to spawn
Installed == {W_true, W_false, W_sleep, W_cat, W_echo}

\* ExitStatus::success of a program that has run
ExitSuccess(program) == program # W_false

\* what a program writes to its standard output
ProgramStdout(program, args) ==
    IF program = W_echo THEN JoinSpace(args) \o <<"\n">> ELSE <<>>

(***************************************************************************)
(* command.rs: subshell expansion.                                         *)
(***************************************************************************)
\* the captured standard output, without one trailing newline
CapturedOutput(o) ==
    [ok |-> TRUE,
     out |-> IF EndsWith(o, "\n") THEN SubSeq(o, 1, Len(o) - 1) ELSE o]

\* ProcessCommand::new(program).args(cmd_args).output() on the parsed words
SubshellRun(args) ==
    IF args = <<>> THEN [ok |-> TRUE, out |-> <<>>]
    ELSE IF args[1] \notin Installed \/ ~ExitSuccess(args[1])
         THEN [ok |-> FALSE, out |-> <<>>]
    ELSE CapturedOutput(ProgramStdout(args[1], Tail(args)))

\* Command::execute_subshell: [ok, out]
execute_subshell(cmd) == SubshellRun(parse_args(Trim(cmd)))

SubshellInit == [result |-> <<>>, depth |-> 0, subshell |-> <<>>, err |-> FALSE]

\* depth reached 0 at a closing parenthesis: o is what execute_subshell
\* returned
SubshellClose(st, o) ==
    IF o.ok
    THEN [st EXCEPT !.depth = 0, !.result = @ \o o.out, !.subshell = <<>>]
    ELSE [st EXCEPT !.err = TRUE]

\* one iteration of the loop of expand_subshells
SubshellStep(st, c) ==
    IF st.err THEN st
    ELSE IF c = "(" THEN
        [st EXCEPT !.depth = @ + 1,
                   !.subshell = IF st.depth + 1 > 1 THEN Append(@, c) ELSE @]
    ELSE IF c = ")" THEN
        IF st.depth - 1 = 0 THEN SubshellClose(st, execute_subshell(st.subshell))
        ELSE IF st.depth - 1 > 0 THEN
            [st EXCEPT !.depth = @ - 1, !.subshell = Append(@, c)]
        ELSE [st EXCEPT !.err = TRUE]
    ELSE IF st.depth > 0 THEN [st EXCEPT !.subshell = Append(@, c)]
    ELSE [st EXCEPT !.result = Append(@, c)]

RECURSIVE SubshellScan(_, _, _)
SubshellScan(text, i, st) ==
    IF i > Len(text) THEN st
    ELSE SubshellScan(text, i + 1, SubshellStep(st, text[i]))

\* an expansion that does not look at the depth the text ends at
SubshellResult_unchecked(st) ==
    IF st.err THEN [ok |-> FALSE, out |-> <<>>]
    ELSE [ok |-> TRUE, out |-> st.result]

\* if depth > 0 { return Err(..) } Ok(result)
SubshellResult(st) ==
    IF st.err \/ st.depth > 0 THEN [ok |-> FALSE, out |-> <<>>]
    ELSE [ok |-> TRUE, out |-> st.result]

\* Command::expand_subshells: [ok, out]
expand_subshells(text) == SubshellResult(SubshellScan(text, 1, SubshellInit))

(***************************************************************************)
(* command.rs: Command::parse.                                             *)
(***************************************************************************)
Digits == <<"0", "1", "2", "3", "4", "5", "6", "7", "8", "9">>
IsDigit(c) == \E d \in 1..10 : Digits[d] = c
DigitVal(c) == (CHOOSE d \in 1..10 : Digits[d] = c) - 1

RECURSIVE DecimalValue(_)
DecimalValue(w) ==
    IF w = <<>> THEN 0
    ELSE DecimalValue(SubSeq(w, 1, Len(w) - 1)) * 10 + DigitVal(w[Len(w)])

RECURSIVE StripZeros(_)
StripZeros(w) == IF w # <<>> /\ w[1] = "0" THEN StripZeros(Tail(w)) ELSE w

\* u32::MAX, digit by digit
U32MaxDigits == <<"4", "2", "9", "4", "9", "6", "7", "2", "9", "5">>

\* a <= b for two digit strings of the same length
RECURSIVE DigitsLeq(_, _)
DigitsLeq(a, b) ==
    IF a = <<>> THEN TRUE
    ELSE IF DigitVal(a[1]) # DigitVal(b[1]) THEN DigitVal(a[1]) < DigitVal(b[1])
    ELSE DigitsLeq(Tail(a), Tail(b))

\* every identifier of ten digits that fits in a u32 is represented by this
\* one value: no job of the model ever has an identifier that large
BigId == 2147483647

\* the value of the digit string d, whose significant digits are n
U32Value(d, n) ==
    IF d = <<>> \/ (\E i \in 1..Len(d) : ~IsDigit(d[i]))
    THEN [ok |-> FALSE, value |-> 0]
    ELSE IF Len(n) < 10 THEN [ok |-> TRUE, value |-> DecimalValue(n)]
    ELSE IF Len(n) = 10 /\ DigitsLeq(n, U32MaxDigits)
         THEN [ok |-> TRUE, value |-> BigId]
    ELSE [ok |-> FALSE, value |-> 0]

U32Digits(d) == U32Value(d, StripZeros(d))

\* str::parse::<u32>: [ok, value]
ParseU32(w) == U32Digits(IF w # <<>> /\ w[1] = "+" THEN Tail(w) ELSE w)

OrOne(r) == IF r.ok THEN r.value ELSE 1

\* args.first().and_then(|s| s.parse().ok()).unwrap_or(1)
JobIdArg(args) == IF args = <<>> THEN 1 ELSE OrOne(ParseU32(args[1]))

NoCommand == [kind |-> "None", program |-> <<>>, args |-> <<>>,
              background |-> FALSE, job_id |-> 0]

Cmd(kind, program, args, background, job_id) ==
    [kind |-> kind, program |-> program, args |-> args,
     background |-> background, job_id |-> job_id]

First(args) == IF args = <<>> THEN <<>> ELSE <<args[1]>>

\* the match on the first word
ParseWords(parts, background) ==
    LET cmd  == parts[1]
        args == Tail(parts)
        OneArg(kind) == IF args = <<>> THEN NoCommand
                        ELSE Cmd(kind, cmd, <<args[1]>>, FALSE, 0)
    IN  CASE cmd = W_cd      -> Cmd("Cd", cmd, First(args), FALSE, 0)
          [] cmd = W_pwd     -> Cmd("Pwd", cmd, <<>>, FALSE, 0)
          [] cmd = W_echo    -> Cmd("Echo", cmd, args, FALSE, 0)
          [] cmd = W_exit    -> Cmd("Exit", cmd, <<>>, FALSE, 0)
          [] cmd = W_help    -> Cmd("Help", cmd, <<>>, FALSE, 0)
          [] cmd = W_ls      -> Cmd("Ls", cmd, First(args), FALSE, 0)
          [] cmd = W_cat     -> OneArg("Cat")
          [] cmd = W_mkdir   -> OneArg("Mkdir")
          [] cmd = W_rm      -> OneArg("Rm")
          [] cmd = W_touch   -> OneArg("Touch")
          [] cmd = W_clear   -> Cmd("Clear", cmd, <<>>, FALSE, 0)
          [] cmd = W_history -> Cmd("History", cmd, <<>>, FALSE, 0)
          [] cmd = W_jobs    -> Cmd("Jobs", cmd, <<>>, FALSE, 0)
          [] cmd = W_fg      -> Cmd("Fg", cmd, <<>>, FALSE, JobIdArg(args))
          [] cmd = W_bg      -> Cmd("Bg", cmd, <<>>, FALSE, JobIdArg(args))
          [] OTHER           -> Cmd("External", cmd, args, background, 0)

\* the words of the command: None for no word, a lone backslash or an
\* empty word
ParseParts(parts, background) ==
    IF parts = <<>> THEN NoCommand
    ELSE IF Len(parts) = 1 /\ (parts[1] = <<"\\">> \/ parts[1] = <<>>) THEN NoCommand
    ELSE ParseWords(parts, background)

\* the expanded text: the trailing & is the background flag and is cut off
ParseExpanded(text) ==
    IF EndsWith(text, "&")
    THEN ParseParts(parse_args(Trim(SubSeq(text, 1, Len(text) - 1))), TRUE)
    ELSE ParseParts(parse_args(text), FALSE)

ParseSubshells(ex) == IF ~ex.ok THEN NoCommand ELSE ParseExpanded(ex.out)

ParseTrimmed(text) ==
    IF text = <<>> THEN NoCommand ELSE ParseSubshells(expand_subshells(text))

\* Command::parse
CommandParse(text) == ParseTrimmed(Trim(text))

(***************************************************************************)
(* pipes.rs: parse_pipeline.                                               *)
(***************************************************************************)
RECURSIVE SplitEach(_)
SplitEach(segs) ==
    IF segs = <<>> THEN <<>>
    ELSE <<SplitWhitespace(Trim(segs[1]))>> \o SplitEach(Tail(segs))

parse_pipeline(text) == SplitEach(Split(text, "|"))

(***************************************************************************)
(* history.rs: History::add.                                               *)
(***************************************************************************)
\* a History::add that pushes the command whatever the last entry is
HistoryAdd_always(h, command) ==
    IF Trim(command) = <<>> THEN h
    ELSE [commands |-> Append(h.commands, command),
          position |-> Len(h.commands) + 1]

HistoryAdd(h, command) ==
    IF Trim(command) = <<>> THEN h
    ELSE LET cs == IF h.commands = <<>> \/ h.commands[Len(h.commands)] # command
                   THEN Append(h.commands, command) ELSE h.commands
         IN  [commands |-> cs, position |-> Len(cs)]

(***************************************************************************)
(* The lines typed at the prompt.                                          *)
(***************************************************************************)
Sp == <<" ">>

L_blank          == <<" ", " ">>
L_amp            == W_amp
L_echo           == W_echo \o Sp \o W_X
L_false_and_echo == W_false \o Sp \o W_and \o Sp \o W_echo \o Sp \o W_X
L_false_or_echo  == W_false \o Sp \o W_or \o Sp \o W_echo \o Sp \o W_X
L_true_semi_echo == W_true \o Sp \o W_semi \o Sp \o W_echo \o Sp \o W_X
L_true_semi_exit == W_true \o Sp \o W_semi \o Sp \o W_exit
L_exit           == W_exit
L_sleep_amp      == W_sleep \o Sp \o W_amp
L_sleep_amp_amp  == W_sleep \o Sp \o W_amp \o Sp \o W_amp
L_nosuch         == W_nosuch
L_nosuch_amp_amp == W_nosuch \o Sp \o W_amp \o Sp \o W_amp
L_fg             == W_fg
L_fg_2           == W_fg \o Sp \o <<"2">>
L_bg             == W_bg
L_jobs           == W_jobs
L_pipe2          == W_sleep \o Sp \o W_bar \o Sp \o W_cat
L_pipe3          == W_sleep \o Sp \o W_bar \o Sp \o W_cat \o Sp \o W_bar \o Sp \o W_cat
L_pipe_nosuch    == W_sleep \o Sp \o W_bar \o Sp \o W_nosuch
L_pipe_amp       == W_sleep \o Sp \o W_bar \o Sp \o W_cat \o Sp \o W_amp
L_pipe_gap       == W_sleep \o Sp \o W_bar \o Sp \o W_bar \o Sp \o W_cat
L_pipe_open      == W_sleep \o Sp \o W_bar
L_paren          == <<"(">>
L_echo_quoted_bar == W_echo \o Sp \o <<"\"", "a", "|", "b", "\"">>

\* the lines of the model, numbered; an action reads line number l
LineSeq ==
    <<L_blank, L_amp, L_echo, L_false_and_echo, L_false_or_echo, L_true_semi_echo,
      L_true_semi_exit, L_exit, L_sleep_amp, L_sleep_amp_amp, L_nosuch,
      L_nosuch_amp_amp, L_fg, L_fg_2, L_bg, L_jobs, L_pipe2, L_pipe3,
      L_pipe_nosuch, L_pipe_amp, L_pipe_gap, L_pipe_open, L_paren,
      L_echo_quoted_bar>>

LineIds == 1..Len(LineSeq)

(***************************************************************************)
(* shell.rs, Shell::run: what the loop body computes from the line before  *)
(* it dispatches.                                                          *)
(***************************************************************************)
\* let background = trimmed.ends_with('&')
LineBackground(text) == EndsWith(Trim(text), "&")

\* trimmed, after the background flag was stripped
StripBackground(t) ==
    IF EndsWith(t, "&") THEN Trim(SubSeq(t, 1, Len(t) - 1)) ELSE t

LineTrimmed(text) == StripBackground(Trim(text))

\* what the dispatch reads, from the line as read and as trimmed
DispatchFrom(text, trimmed) ==
    [empty      |-> Trim(text) = <<>>,
     background |-> LineBackground(text),
     trimmed    |-> trimmed,
     pipeline   |-> Contains(trimmed, "|"),
     commands   |-> parse_pipeline(trimmed),
     cmd        |-> CommandParse(trimmed)]

\* everything the dispatch reads from a line
DispatchOf(text) == DispatchFrom(text, LineTrimmed(text))

\* DispatchOf for every line of the model, computed once
RECURSIVE DispatchUpTo(_)
DispatchUpTo(k) ==
    IF k = 0 THEN <<>> ELSE Append(DispatchUpTo(k - 1), DispatchOf(LineSeq[k]))

Dispatch == DispatchUpTo(Len(LineSeq))

(***************************************************************************)
(* State.                                                                  *)
(***************************************************************************)
VARIABLES
    pc,           \* where the interactive loop is: loop, read, dispatch,
                  \* status, fg_wait, pipeline, stopped
    running,      \* Shell.running
    history,      \* Shell.history: [commands, position]
    jobs,         \* JobManager.jobs: id -> Job
    next_id,      \* JobManager.next_id
    procs,        \* the child processes spawned so far, indexed by pid
    fg_child,     \* the pid cmd.status() is blocked on (0: none)
    fg_job,       \* the Job foreground_job took out of the table
    runs,         \* the run_pipeline calls in progress: 0 is the interactive
                  \* loop's, 1..MaxThreads are background threads'
    input,        \* the line read in this iteration
    line,         \* what the loop body computed from it: DispatchOf(input)
    executed,     \* the commands carried out for that line, in order
    out,          \* what echo wrote to the session's standard output for it
    issued,       \* the identifiers add_job returned, in order
    done_update,  \* per job id: completion lines update_jobs printed
    done_fg,      \* per job id: Done lines foreground_job printed
    returned,     \* the last return of run_pipeline: [runner, err, children]
    reader,       \* a call of read_input_with_continuation: its locals and
                  \* the lines read_line has returned to it
    parsed,       \* the text handed to a parser and what the parser made of it
    files,        \* the files of the working directory: name -> content
    editor,       \* Shell.editor, the LineEditor, and the call of read_line
                  \* in progress: its raw-mode guard and how it ended
    heredoc       \* a call of read_heredoc_lines: what standard input held,
                  \* what is still unread, and the lines collected

\* the state of the run loop, and the state of one call of the line reader,
\* of one parse, of the file system and of the line editor
shellVars == <<pc, running, history, jobs, next_id, procs, fg_child, fg_job, runs,
               input, line, executed, out, issued, done_update, done_fg, returned>>
callVars == <<reader, parsed, files, editor, heredoc>>

vars == <<pc, running, history, jobs, next_id, procs, fg_child, fg_job, runs,
          input, line, executed, out, issued, done_update, done_fg, returned,
          reader, parsed, files, editor, heredoc>>

StdioInherit == [kind |-> "inherit", pipe |-> 0]
StdioNull    == [kind |-> "null", pipe |-> 0]
\* the pipe Stdio::piped() made for the standard output of child p
StdioPipe(p) == [kind |-> "pipe", pipe |-> p]

NoJob == [id |-> 0, pid |-> 0, command |-> <<>>, status |-> "Done",
          process |-> FALSE]
NoReturn == [runner |-> 0, err |-> FALSE, children |-> <<>>, any |-> FALSE]

Threads == 1..MaxThreads

\* the empty job table, the empty set of run_pipeline calls, no counters
NoJobs   == [id \in {} |-> NoJob]
NoRuns   == [r \in {} |-> 0]
NoCounts == [id \in {} |-> 0]

\* read_input_with_continuation at entry: no line read yet; why tells what
\* the loop did with the last line (backslash: joined and continued, quote:
\* appended and continued, submit: appended and returned)
ReaderInit ==
    [full_input |-> <<>>, first_line |-> TRUE, lines |-> <<>>, why |-> "none"]

\* nothing parsed yet
NoParse == [text |-> <<>>, by |-> "none"]

\* LineEditor::new, before any call of read_line: status tells where the
\* call is (idle: none, reading: in the loop, ok: returned Ok(result), err:
\* returned Err, exit: process::exit, panic: a panic, at the place named);
\* tab is what handle_tab_completion returned last
EditorInit ==
    [buffer |-> <<>>, cursor_pos |-> 0, raw_mode |-> FALSE, status |-> "idle",
     result |-> <<>>, by |-> "none", held |-> <<>>, tab |-> "none"]

\* no call of read_heredoc_lines yet
HeredocInit ==
    [input |-> <<>>, stdin |-> <<>>, lines |-> <<>>, status |-> "idle"]

\* the working directory without a file
NoFiles == [f \in {} |-> <<>>]

\* f without the keys in S
Without(f, S) == [x \in DOMAIN f \ S |-> f[x]]

\* Command::spawn: the process table with the new child, whose pid is the
\* next free one
Spawn(ps, program, args, stdin, stdout) ==
    Append(ps, [program |-> program, args |-> args, state |-> "running",
                stdin |-> stdin, stdout |-> stdout])

Init ==
    /\ pc = "loop"
    /\ running = TRUE
    /\ history = [commands |-> <<>>, position |-> 0]
    /\ jobs = NoJobs
    /\ next_id = 1
    /\ procs = << >>
    /\ fg_child = 0
    /\ fg_job = NoJob
    /\ runs = NoRuns
    /\ input = << >>
    /\ line = DispatchOf(<< >>)
    /\ executed = << >>
    /\ out = << >>
    /\ issued = << >>
    /\ done_update = NoCounts
    /\ done_fg = NoCounts
    /\ returned = NoReturn
    /\ reader = ReaderInit
    /\ parsed = NoParse
    /\ files = NoFiles
    /\ editor = EditorInit
    /\ heredoc = HeredocInit

(***************************************************************************)
(* jobs.rs: the JobManager.                                                *)
(***************************************************************************)
\* an add_job that hands out the smallest identifier not in the table
add_job_reuse(js, nid, pid, command) ==
    LET id == MinOf((1..nid) \ DOMAIN js)
    IN  [jobs |-> (id :> [id |-> id, pid |-> pid, command |-> command,
                          status |-> "Running", process |-> TRUE]) @@ js,
         next_id |-> IF id = nid THEN nid + 1 ELSE nid,
         id |-> id]

\* JobManager::add_job on (jobs, next_id): the new table, the new next_id
\* and the identifier returned
add_job(js, nid, pid, command) ==
    LET id == nid
    IN  [jobs |-> (id :> [id |-> id, pid |-> pid, command |-> command,
                          status |-> "Running", process |-> TRUE]) @@ js,
         next_id |-> nid + 1,
         id |-> id]

\* JobManager::get_job: whether the table holds id
get_job(js, id) == id \in DOMAIN js

\* a remove_job that reads the Job and leaves it in the table
remove_job_keep(js, id) ==
    IF id \in DOMAIN js
    THEN [jobs |-> js, found |-> TRUE, job |-> js[id]]
    ELSE [jobs |-> js, found |-> FALSE, job |-> NoJob]

\* JobManager::remove_job: the table without id, and the Job taken out
remove_job(js, id) ==
    IF id \in DOMAIN js
    THEN [jobs |-> Without(js, {id}), found |-> TRUE, job |-> js[id]]
    ELSE [jobs |-> js, found |-> FALSE, job |-> NoJob]

\* JobManager::list_jobs: the jobs by ascending id
RECURSIVE SortedIds(_)
SortedIds(S) == IF S = {} THEN <<>> ELSE <<MinOf(S)>> \o SortedIds(S \ {MinOf(S)})
list_jobs(js) == [k \in 1..Cardinality(DOMAIN js) |-> js[SortedIds(DOMAIN js)[k]]]

\* child.try_wait() is Ok(Some(status)): the process has exited
TryWaitExited(ps, pid) == ps[pid].state = "exited"

\* a pass whose try_wait never finds an exited process
Completed_none(js, ps) == {}

\* the ids update_jobs finds exited
Completed(js, ps) ==
    {id \in DOMAIN js : js[id].process /\ TryWaitExited(ps, js[id].pid)}

\* an update_jobs that marks the exited jobs Done and evicts none
update_jobs_keep(js, ps) ==
    [id \in DOMAIN js |->
        IF id \in Completed(js, ps)
        THEN [js[id] EXCEPT !.status = "Done", !.process = FALSE]
        ELSE js[id]]

\* an update_jobs that marks the exited jobs Done in one pass and evicts
\* them in the next
update_jobs_late(js, ps) ==
    LET marked == [id \in DOMAIN js |->
                      IF id \in Completed(js, ps)
                      THEN [js[id] EXCEPT !.status = "Done", !.process = FALSE]
                      ELSE js[id]]
    IN  Without(marked, {id \in DOMAIN js : ~js[id].process})

\* JobManager::update_jobs: the table after the pass
update_jobs(js, ps) ==
    LET marked == [id \in DOMAIN js |->
                      IF id \in Completed(js, ps)
                      THEN [js[id] EXCEPT !.status = "Done", !.process = FALSE]
                      ELSE js[id]]
    IN  Without(marked, Completed(js, ps))

\* the process table after wait() or try_wait() collected the pids in S
Reap(ps, S) ==
    [p \in DOMAIN ps |-> IF p \in S THEN [ps[p] EXCEPT !.state = "reaped"] ELSE ps[p]]

(***************************************************************************)
(* pipes.rs: run_pipeline, one frame per call.                             *)
(***************************************************************************)
\* the frame at entry: i is the stage the for loop is at (from 1), w the
\* child the wait loop is at, previous_stdout the pipe held (0: None)
Frame(commands) ==
    [commands |-> commands, i |-> 1, children |-> <<>>, stages |-> <<>>,
     previous_stdout |-> 0, w |-> 1]

\* a stage that is never given the previous stage's pipe
StageStdin_inherit(previous_stdout) == StdioInherit

\* cmd.stdin(..): the previous stage's pipe when one is held
StageStdin(previous_stdout) ==
    IF previous_stdout # 0 THEN StdioPipe(previous_stdout) ELSE StdioInherit

\* cmd.stdout(..) of stage i of n, spawned as child pid
StageStdout(i, n, pid) ==
    IF i < n THEN StdioPipe(pid) ELSE StdioInherit

\* previous_stdout after stage i of n was spawned as child pid
NextPrevious(i, n, pid) == IF i < n THEN pid ELSE 0

\* stages from k on that run_pipeline will spawn
RECURSIVE SpawnCount(_, _)
SpawnCount(commands, k) ==
    IF k > Len(commands) THEN 0
    ELSE IF commands[k] = <<>> THEN SpawnCount(commands, k + 1)
    ELSE IF commands[k][1] \notin Installed THEN 0
    ELSE 1 + SpawnCount(commands, k + 1)

RECURSIVE Reserved(_, _)
Reserved(rs, S) ==
    IF S = {} THEN 0
    ELSE LET r == CHOOSE x \in S : TRUE
         IN  SpawnCount(rs[r].commands, rs[r].i) + Reserved(rs, S \ {r})

\* processes the line will spawn
Needed(d) ==
    IF d.empty THEN 0
    ELSE IF d.pipeline THEN SpawnCount(d.commands, 1)
    ELSE IF d.cmd.kind = "External" /\ d.cmd.program \in Installed THEN 1
    ELSE 0

(***************************************************************************)
(* shell.rs, Shell::run: the loop.                                         *)
(***************************************************************************)
\* per job id, one more line printed for each id in S
Bump(cnt, S) == [id \in DOMAIN cnt |-> IF id \in S THEN cnt[id] + 1 ELSE cnt[id]]

\* while self.running { self.job_manager.update_jobs(); ...
UpdateJobs ==
    /\ pc = "loop"
    /\ running
    /\ jobs' = update_jobs(jobs, procs)
    /\ procs' = Reap(procs, {jobs[id].pid : id \in Completed(jobs, procs)})
    /\ done_update' = Bump(done_update, Completed(jobs, procs))
    /\ pc' = "read"
    /\ UNCHANGED <<running, history, next_id, fg_child, fg_job, runs, input, line,
                   executed, out, issued, done_fg, returned>>
    /\ UNCHANGED callVars

\* the while condition is false: run returns
LoopExit ==
    /\ pc = "loop"
    /\ ~running
    /\ pc' = "stopped"
    /\ UNCHANGED <<running, history, jobs, next_id, procs, fg_child, fg_job,
                   runs, input, line, executed, out, issued, done_update, done_fg,
                   returned>>
    /\ UNCHANGED callVars

\* Err(e) => { eprintln!(..); break; }
ReadError ==
    /\ pc = "read"
    /\ pc' = "stopped"
    /\ UNCHANGED <<running, history, jobs, next_id, procs, fg_child, fg_job,
                   runs, input, line, executed, out, issued, done_update, done_fg,
                   returned>>
    /\ UNCHANGED callVars

\* editor/core.rs, read_line: Ctrl-D on an empty buffer ends the process
EndOfInput ==
    /\ pc = "read"
    /\ pc' = "stopped"
    /\ UNCHANGED <<running, history, jobs, next_id, procs, fg_child, fg_job,
                   runs, input, line, executed, out, issued, done_update, done_fg,
                   returned>>
    /\ UNCHANGED callVars

\* read_input_with_continuation returned text, and the loop body computed
\* d from it; the guard keeps the session within the bounds of the model
ReadParsed(text, d) ==
    /\ pc = "read"
    /\ Len(HistoryAdd(history, d.trimmed).commands) <= MaxHist
    /\ Len(procs) + Reserved(runs, DOMAIN runs) + Needed(d) <= MaxProcs
    /\ d.pipeline /\ d.background => Threads \ DOMAIN runs # {}
    /\ input' = text
    /\ line' = d
    /\ executed' = <<>>
    /\ out' = <<>>
    /\ returned' = NoReturn
    /\ pc' = "dispatch"
    /\ UNCHANGED <<running, history, jobs, next_id, procs, fg_child, fg_job,
                   runs, issued, done_update, done_fg>>
    /\ UNCHANGED callVars

\* Ok(input) => ...
ReadLine(l) == ReadParsed(LineSeq[l], Dispatch[l])

\* if trimmed.is_empty() { continue; }
EmptyLine ==
    /\ pc = "dispatch"
    /\ line.empty
    /\ pc' = "loop"
    /\ UNCHANGED <<running, history, jobs, next_id, procs, fg_child, fg_job,
                   runs, input, line, executed, out, issued, done_update,
                   done_fg, returned>>
    /\ UNCHANGED callVars

\* self.history.add(trimmed.clone()), for every line that is not empty
Accept ==
    /\ pc = "dispatch"
    /\ ~line.empty
    /\ history' = HistoryAdd(history, line.trimmed)
    /\ UNCHANGED <<input, line>>
    /\ UNCHANGED callVars

\* a loop that runs every pipeline itself
PipelineDetached_never(background) == FALSE

\* where a line with a pipe goes when the background flag is set: a new
\* thread (TRUE) or the interactive loop itself (FALSE)
PipelineDetached(background) == background

\* std::thread::spawn(move || run_pipeline(commands_clone))
PipelineBackground ==
    /\ Accept
    /\ line.pipeline
    /\ PipelineDetached(line.background)
    /\ \E t \in Threads \ DOMAIN runs :
          /\ \A u \in Threads \ DOMAIN runs : t <= u
          /\ runs' = (t :> Frame(line.commands)) @@ runs
    /\ pc' = "loop"
    /\ UNCHANGED <<running, jobs, next_id, procs, fg_child, fg_job, executed,
                   out, issued, done_update, done_fg, returned>>

\* run_pipeline(commands) on the interactive loop
PipelineForeground ==
    /\ Accept
    /\ line.pipeline
    /\ ~PipelineDetached(line.background)
    /\ runs' = (0 :> Frame(line.commands)) @@ runs
    /\ pc' = "pipeline"
    /\ UNCHANGED <<running, jobs, next_id, procs, fg_child, fg_job, executed,
                   out, issued, done_update, done_fg, returned>>

\* a line without a pipe, parsed to cmd of the given kinds
Single(kinds) ==
    /\ Accept
    /\ ~line.pipeline
    /\ line.cmd.kind \in kinds
    /\ returned' = returned

\* Command::parse returned None
ParseNone ==
    /\ Single({"None"})
    /\ executed' = <<>>
    /\ out' = <<>>
    /\ pc' = "loop"
    /\ UNCHANGED <<running, jobs, next_id, procs, fg_child, fg_job, runs,
                   issued, done_update, done_fg>>

\* a background_job that takes the job out of the table
background_job_remove(js, id) ==
    [jobs |-> remove_job(js, id).jobs, found |-> get_job(js, id)]

\* Shell::background_job: the table after the call, and which of the two
\* lines it printed (found: continued in background, else: not found)
background_job(js, id) ==
    [jobs |-> js, found |-> get_job(js, id)]

\* Command::History, Command::Jobs, Command::Bg: printed by the shell
ShellBuiltin ==
    /\ Single({"History", "Jobs", "Bg"})
    /\ jobs' = IF line.cmd.kind = "Bg"
               THEN background_job(jobs, line.cmd.job_id).jobs ELSE jobs
    /\ executed' = <<line.cmd>>
    /\ out' = <<>>
    /\ pc' = "loop"
    /\ UNCHANGED <<running, next_id, procs, fg_child, fg_job, runs,
                   issued, done_update, done_fg>>

\* Command::Fg(job_id) => self.foreground_job(job_id), up to child.wait()
ForegroundJob ==
    /\ Single({"Fg"})
    /\ LET r == remove_job(jobs, line.cmd.job_id)
       IN  /\ jobs' = r.jobs
           /\ IF r.found /\ r.job.process
              THEN pc' = "fg_wait" /\ fg_job' = r.job
              ELSE pc' = "loop" /\ fg_job' = fg_job
    /\ executed' = <<line.cmd>>
    /\ out' = <<>>
    /\ UNCHANGED <<running, next_id, procs, fg_child, runs, issued,
                   done_update, done_fg>>

\* child.wait() returned: println!("[{}] Done (exit: {})", ..)
ForegroundJobDone ==
    /\ pc = "fg_wait"
    /\ procs[fg_job.pid].state = "exited"
    /\ procs' = Reap(procs, {fg_job.pid})
    /\ done_fg' = Bump(done_fg, {fg_job.id})
    /\ fg_job' = NoJob
    /\ pc' = "loop"
    /\ UNCHANGED <<running, history, jobs, next_id, fg_child, runs, input, line,
                   executed, out, issued, done_update, returned>>
    /\ UNCHANGED callVars

\* Command::Exit => self.running = false
Exit ==
    /\ Single({"Exit"})
    /\ running' = FALSE
    /\ executed' = <<line.cmd>>
    /\ out' = <<>>
    /\ pc' = "loop"
    /\ UNCHANGED <<jobs, next_id, procs, fg_child, fg_job, runs, issued,
                   done_update, done_fg>>

(***************************************************************************)
(* command.rs, Command::execute.                                           *)
(***************************************************************************)
\* an execute that returns whether the command succeeded
ExecuteResult_status(success) == success

\* what execute returns for every command but Exit, whether or not the
\* command succeeded: the `true` at its end
ExecuteResult(success) == TRUE

\* the built-ins execute carries out itself, with or without an error
ExecuteBuiltin ==
    /\ Single({"Cd", "Pwd", "Echo", "Help", "Ls", "Cat", "Mkdir", "Rm",
                  "Touch", "Clear"})
    /\ \E success \in BOOLEAN : running' = ExecuteResult(success)
    /\ executed' = <<line.cmd>>
    /\ out' = IF line.cmd.kind = "Echo"
              THEN <<JoinSpace(line.cmd.args)>> ELSE <<>>
    /\ pc' = "loop"
    /\ UNCHANGED <<jobs, next_id, procs, fg_child, fg_job, runs, issued,
                   done_update, done_fg>>

\* format!("{} {}", program, args.join(" "))
CommandStr(cmd) == cmd.program \o <<" ">> \o JoinSpace(cmd.args)

\* Command::External with background set: spawn, then add_job
ExecuteBackground ==
    /\ Single({"External"})
    /\ line.cmd.background
    /\ LET cmd == line.cmd
           pid == Len(procs) + 1
           a   == add_job(jobs, next_id, pid, CommandStr(cmd))
       IN  IF cmd.program \in Installed
           THEN /\ procs' = Spawn(procs, cmd.program, cmd.args, StdioNull,
                                  StdioInherit)
                /\ jobs' = a.jobs
                /\ next_id' = a.next_id
                /\ issued' = Append(issued, a.id)
                /\ done_update' = (a.id :> 0) @@ done_update
                /\ done_fg' = (a.id :> 0) @@ done_fg
           ELSE UNCHANGED <<procs, jobs, next_id, issued, done_update, done_fg>>
    /\ running' = ExecuteResult(line.cmd.program \in Installed)
    /\ executed' = <<line.cmd>>
    /\ out' = <<>>
    /\ pc' = "loop"
    /\ UNCHANGED <<fg_child, fg_job, runs>>

\* Command::External without it: cmd.status(), up to the wait
ExecuteForeground ==
    /\ Single({"External"})
    /\ ~line.cmd.background
    /\ LET cmd == line.cmd
       IN  IF cmd.program \in Installed
           THEN /\ procs' = Spawn(procs, cmd.program, cmd.args, StdioInherit,
                                  StdioInherit)
                /\ fg_child' = Len(procs) + 1
                /\ pc' = "status"
                /\ running' = running
           ELSE /\ UNCHANGED <<procs, fg_child>>
                /\ pc' = "loop"
                /\ running' = ExecuteResult(FALSE)
    /\ executed' = <<line.cmd>>
    /\ out' = <<>>
    /\ UNCHANGED <<jobs, next_id, fg_job, runs, issued, done_update, done_fg>>

\* cmd.status() returned; execute returns true
StatusReturn ==
    /\ pc = "status"
    /\ procs[fg_child].state = "exited"
    /\ procs' = Reap(procs, {fg_child})
    /\ fg_child' = 0
    /\ running' = ExecuteResult(ExitSuccess(procs[fg_child].program))
    /\ pc' = "loop"
    /\ UNCHANGED <<history, jobs, next_id, fg_job, runs, input, line, executed, out,
                   issued, done_update, done_fg, returned>>
    /\ UNCHANGED callVars

(***************************************************************************)
(* pipes.rs, run_pipeline: the steps of a call, on the interactive loop    *)
(* (runner 0) or on a background thread.                                   *)
(***************************************************************************)
\* run_pipeline returns to its caller
Leave(r, err) ==
    /\ runs' = Without(runs, {r})
    /\ returned' = [runner |-> r, err |-> err, children |-> runs[r].children,
                    any |-> TRUE]
    /\ pc' = IF r = 0 THEN "loop" ELSE pc

\* if cmd_parts.is_empty() { continue; }
PipelineSkip(r) ==
    /\ r \in DOMAIN runs
    /\ runs[r].i <= Len(runs[r].commands)
    /\ runs[r].commands[runs[r].i] = <<>>
    /\ runs' = [runs EXCEPT ![r].i = @ + 1]
    /\ UNCHANGED <<pc, running, history, jobs, next_id, procs, fg_child,
                   fg_job, input, line, executed, out, issued, done_update, done_fg,
                   returned>>
    /\ UNCHANGED callVars

\* one iteration of the for loop that spawns a stage
PipelineSpawn(r) ==
    /\ r \in DOMAIN runs
    /\ runs[r].i <= Len(runs[r].commands)
    /\ runs[r].commands[runs[r].i] # <<>>
    /\ runs[r].commands[runs[r].i][1] \in Installed
    /\ LET f   == runs[r]
           n   == Len(f.commands)
           pid == Len(procs) + 1
       IN  /\ procs' = Spawn(procs, f.commands[f.i][1], Tail(f.commands[f.i]),
                             StageStdin(f.previous_stdout),
                             StageStdout(f.i, n, pid))
           /\ runs' = [runs EXCEPT ![r].i = @ + 1,
                                   ![r].children = Append(@, pid),
                                   ![r].stages = Append(@, f.i),
                                   ![r].previous_stdout = NextPrevious(f.i, n, pid)]
    /\ UNCHANGED <<pc, running, history, jobs, next_id, fg_child, fg_job,
                   input, line, executed, out, issued, done_update, done_fg, returned>>
    /\ UNCHANGED callVars

\* cmd.spawn()? fails: run_pipeline returns the error at once
PipelineSpawnFail(r) ==
    /\ r \in DOMAIN runs
    /\ runs[r].i <= Len(runs[r].commands)
    /\ runs[r].commands[runs[r].i] # <<>>
    /\ runs[r].commands[runs[r].i][1] \notin Installed
    /\ Leave(r, TRUE)
    /\ UNCHANGED <<running, history, jobs, next_id, procs, fg_child, fg_job,
                   input, line, executed, out, issued, done_update, done_fg>>
    /\ UNCHANGED callVars

\* for mut child in children { child.wait()?; }: one child collected
PipelineWait(r) ==
    /\ r \in DOMAIN runs
    /\ runs[r].i > Len(runs[r].commands)
    /\ runs[r].w <= Len(runs[r].children)
    /\ procs[runs[r].children[runs[r].w]].state = "exited"
    /\ procs' = Reap(procs, {runs[r].children[runs[r].w]})
    /\ runs' = [runs EXCEPT ![r].w = @ + 1]
    /\ UNCHANGED <<pc, running, history, jobs, next_id, fg_child, fg_job,
                   input, line, executed, out, issued, done_update, done_fg, returned>>
    /\ UNCHANGED callVars

\* Ok(())
PipelineReturn(r) ==
    /\ r \in DOMAIN runs
    /\ runs[r].i > Len(runs[r].commands)
    /\ runs[r].w > Len(runs[r].children)
    /\ Leave(r, FALSE)
    /\ UNCHANGED <<running, history, jobs, next_id, procs, fg_child, fg_job,
                   input, line, executed, out, issued, done_update, done_fg>>
    /\ UNCHANGED callVars

(***************************************************************************)
(* The child processes.                                                    *)
(***************************************************************************)
\* a running child exits; an echo with the session's standard output has
\* written its arguments by then
ProcExit(p) ==
    /\ p \in DOMAIN procs
    /\ procs[p].state = "running"
    /\ procs' = [procs EXCEPT ![p].state = "exited"]
    /\ out' = IF procs[p].program = W_echo /\ procs[p].stdout = StdioInherit
              THEN Append(out, JoinSpace(procs[p].args)) ELSE out
    /\ UNCHANGED <<pc, running, history, jobs, next_id, fg_child, fg_job, runs,
                   input, line, executed, issued, done_update, done_fg, returned>>
    /\ UNCHANGED callVars

Runners == {0} \cup Threads

\* the lines the two specifications read: every line without a pipe, and
\* every line with one next to three plain ones
SingleLineIds == {l \in LineIds : ~Contains(LineSeq[l], "|")}
PipeLineIds ==
    {l \in LineIds : Contains(LineSeq[l], "|")
                     \/ LineSeq[l] \in {L_blank, L_echo, L_exit}}

\* the loop and the child processes, common to both specifications
LoopStep ==
    \/ UpdateJobs
    \/ LoopExit
    \/ ReadError
    \/ EndOfInput
    \/ EmptyLine
    \/ Exit
    \/ ExecuteBuiltin
    \/ \E p \in 1..MaxProcs : ProcExit(p)

\* single commands and the job table
Next ==
    \/ LoopStep
    \/ \E l \in SingleLineIds : ReadLine(l)
    \/ ParseNone
    \/ ShellBuiltin
    \/ ForegroundJob
    \/ ForegroundJobDone
    \/ ExecuteBackground
    \/ ExecuteForeground
    \/ StatusReturn

Spec == Init /\ [][Next]_vars

\* pipelines, in the foreground and on background threads
NextPipeline ==
    \/ LoopStep
    \/ \E l \in PipeLineIds : ReadLine(l)
    \/ PipelineBackground
    \/ PipelineForeground
    \/ \E r \in Runners : PipelineSkip(r)
    \/ \E r \in Runners : PipelineSpawn(r)
    \/ \E r \in Runners : PipelineSpawnFail(r)
    \/ \E r \in Runners : PipelineWait(r)
    \/ \E r \in Runners : PipelineReturn(r)

SpecPipeline == Init /\ [][NextPipeline]_vars

(***************************************************************************)
(* shell.rs: read_input_with_continuation, one step per line that          *)
(* read_line returns.                                                      *)
(***************************************************************************)
\* str::trim_end
TrimEnd(text) ==
    IF NonWsIdx(text) = {} THEN <<>> ELSE SubSeq(text, 1, MaxOf(NonWsIdx(text)))

\* the count of the loop over chars.iter().rev(): the backslashes at the end
RECURSIVE TrailingBackslashes(_)
TrailingBackslashes(text) ==
    IF text # <<>> /\ text[Len(text)] = "\\"
    THEN 1 + TrailingBackslashes(SubSeq(text, 1, Len(text) - 1))
    ELSE 0

\* let has_trailing_backslash = line_trimmed.ends_with('\\') && { .. }
has_trailing_backslash(l) ==
    EndsWith(TrimEnd(l), "\\") /\ TrailingBackslashes(TrimEnd(l)) % 2 = 1

\* &line_trimmed[..line_trimmed.len() - 1]
without_backslash(l) == SubSeq(TrimEnd(l), 1, Len(TrimEnd(l)) - 1)

\* if has_trailing_backslash { .. continue; }
ReaderJoin(rd, l) ==
    [full_input |-> (IF ~rd.first_line /\ rd.full_input # <<>>
                     THEN Append(rd.full_input, " ") ELSE rd.full_input)
                    \o without_backslash(l),
     first_line |-> FALSE,
     lines |-> Append(rd.lines, l),
     why |-> "backslash"]

\* full_input after the line was added to it
Appended(rd, l) ==
    (IF ~rd.first_line THEN Append(rd.full_input, "\n") ELSE rd.full_input) \o l

\* the check on the accumulated input: continue or break
ReaderChecked(rd, l, full) ==
    [full_input |-> full,
     first_line |-> FALSE,
     lines |-> Append(rd.lines, l),
     why |-> IF needs_line_continuation(full) THEN "quote" ELSE "submit"]

\* a reader that checks the last line alone
ReaderAppend_last(rd, l) ==
    [full_input |-> Appended(rd, l),
     first_line |-> FALSE,
     lines |-> Append(rd.lines, l),
     why |-> IF needs_line_continuation(l) THEN "quote" ELSE "submit"]

\* the line is added to full_input and the check is run on all of it
ReaderAppend(rd, l) == ReaderChecked(rd, l, Appended(rd, l))

\* the lines read_line returns in the model
R_a        == <<"a">>
R_a_bs     == <<"a", "\\">>
R_a_bs_bs  == <<"a", "\\", "\\">>
R_a_bs_sp  == <<"a", "\\", " ">>
R_b        == <<"b">>
R_open     == <<"\"", "a">>
R_close    == <<"b", "\"">>
\* the empty string: what read_line returns when the read ended with Ctrl+C
R_ctrl_c   == <<>>

ReaderLines == {R_a, R_a_bs, R_a_bs_bs, R_a_bs_sp, R_b, R_open, R_close, R_ctrl_c}

\* read_line returned l, which ends in an odd run of backslashes
ReadJoined(l) ==
    /\ reader.why # "submit"
    /\ Len(reader.lines) < MaxLines
    /\ has_trailing_backslash(l)
    /\ reader' = ReaderJoin(reader, l)
    /\ UNCHANGED <<shellVars, parsed, files, editor, heredoc>>

\* read_line returned l, which does not
ReadAppended(l) ==
    /\ reader.why # "submit"
    /\ Len(reader.lines) < MaxLines
    /\ ~has_trailing_backslash(l)
    /\ reader' = ReaderAppend(reader, l)
    /\ UNCHANGED <<shellVars, parsed, files, editor, heredoc>>

\* Ok(full_input): the next call starts afresh
ReadReturned ==
    /\ reader.why = "submit"
    /\ reader' = ReaderInit
    /\ UNCHANGED <<shellVars, parsed, files, editor, heredoc>>

NextReader ==
    \/ \E l \in ReaderLines : ReadJoined(l)
    \/ \E l \in ReaderLines : ReadAppended(l)
    \/ ReadReturned

SpecReader == Init /\ [][NextReader]_vars

(***************************************************************************)
(* command.rs: Command::parse and its tokenizer, applied to a text that    *)
(* grows by one character at a time, and to whole lines.                   *)
(***************************************************************************)
\* the characters typed
TokenAlphabet == {"a", " ", "\t", "'", "\\", "(", ")"}

\* whole lines handed to the parser
T_echo_quoted == W_echo \o <<" ", "'", "a", "\\", " ", "b", "'">>
T_echo_tab    == W_echo \o <<" ", "a", "\t", "b">>
T_subshell    == <<"a", " ", "(">> \o W_true \o <<")">>
T_unclosed    == <<"a", " ", "(", "(">> \o W_true \o <<")">>
T_unopened    == <<"a", " ", "(">> \o W_true \o <<")", ")">>

TokenLines == {T_echo_quoted, T_echo_tab, T_subshell, T_unclosed, T_unopened}

\* what parse_args_with_state and Command::parse return for text
Tokenized(text, st) ==
    [text |-> text, by |-> "Command::parse", args |-> st.args,
     in_quotes |-> st.in_quotes, cmd |-> CommandParse(text)]

\* one more character is typed and the text is parsed
TypeChar(c) ==
    /\ parsed.by \in {"none", "Command::parse"}
    /\ Len(parsed.text) < MaxText
    /\ parsed' = Tokenized(Append(parsed.text, c),
                           parse_args_with_state(Append(parsed.text, c)))
    /\ UNCHANGED <<shellVars, reader, files, editor, heredoc>>

\* a whole line is parsed
ParseLine(l) ==
    /\ parsed.by = "none"
    /\ parsed' = Tokenized(l, parse_args_with_state(l))
    /\ UNCHANGED <<shellVars, reader, files, editor, heredoc>>

NextTokens ==
    \/ \E c \in TokenAlphabet : TypeChar(c)
    \/ \E l \in TokenLines : ParseLine(l)

SpecTokens == Init /\ [][NextTokens]_vars

(***************************************************************************)
(* redirects.rs: tokenize_with_redirects and ParsedCommand::parse.         *)
(***************************************************************************)
\* the operator tokens
Op_in         == <<"<">>
Op_out        == <<">">>
Op_append     == <<">", ">">>
Op_err        == <<"2", ">">>
Op_err_append == <<"2", ">", ">">>
Op_both       == <<"&", ">">>

RedirectOps == {Op_in, Op_out, Op_append, Op_err, Op_err_append, Op_both}

\* the RedirectType an operator token stands for
RedirectType(op) ==
    CASE op = Op_in         -> "StdinFrom"
      [] op = Op_out        -> "StdoutTo"
      [] op = Op_append     -> "StdoutAppend"
      [] op = Op_err        -> "StderrTo"
      [] op = Op_err_append -> "StderrAppend"
      [] op = Op_both       -> "BothTo"

TokensInit ==
    [tokens |-> <<>>, current |-> <<>>, in_quotes |-> FALSE, quote_char |-> " "]

\* if !current.is_empty() { tokens.push(current.clone()); current.clear(); }
Flush(st) ==
    IF st.current # <<>>
    THEN [st EXCEPT !.tokens = Append(@, st.current), !.current = <<>>]
    ELSE st

\* the state after an arm that pushed the operator op, preceded by a flush,
\* and the number of characters the arm took
Emit(st, op) == [st |-> [Flush(st) EXCEPT !.tokens = Append(@, op)], took |-> Len(op)]

\* one iteration of the while loop: c is the character, p1 what chars.peek()
\* shows after it and p2 the character after that (empty: none)
TokensStep(st, c, p1, p2) ==
    IF c \in {"\"", "'"} /\ ~st.in_quotes THEN
        [st |-> [st EXCEPT !.in_quotes = TRUE, !.quote_char = c], took |-> 1]
    ELSE IF c \in {"\"", "'"} /\ st.in_quotes /\ c = st.quote_char THEN
        [st |-> [st EXCEPT !.in_quotes = FALSE], took |-> 1]
    ELSE IF c = " " /\ ~st.in_quotes THEN [st |-> Flush(st), took |-> 1]
    ELSE IF c = ">" /\ ~st.in_quotes THEN
        IF p1 = ">" THEN Emit(st, Op_append) ELSE Emit(st, Op_out)
    ELSE IF c = "<" /\ ~st.in_quotes THEN Emit(st, Op_in)
    ELSE IF c = "2" /\ ~st.in_quotes /\ p1 = ">" THEN
        IF p2 = ">" THEN Emit(st, Op_err_append) ELSE Emit(st, Op_err)
    ELSE IF c = "&" /\ ~st.in_quotes /\ p1 = ">" THEN Emit(st, Op_both)
    ELSE [st |-> [st EXCEPT !.current = Append(@, c)], took |-> 1]

\* the character at k, empty past the end
CharAt(text, k) == IF k <= Len(text) THEN text[k] ELSE ""

RECURSIVE TokensScan(_, _, _)
TokensFrom(text, i, r) == TokensScan(text, i + r.took, r.st)

TokensScan(text, i, st) ==
    IF i > Len(text) THEN st
    ELSE TokensFrom(text, i, TokensStep(st, text[i], CharAt(text, i + 1),
                                        CharAt(text, i + 2)))

\* tokenize_with_redirects
tokenize_with_redirects(text) == Flush(TokensScan(text, 1, TokensInit)).tokens

\* ParsedCommand::parse, the while loop from token i on: the redirects, the
\* other tokens, and the number of operators that had no token after them
RECURSIVE ParseTokens(_, _, _)
ParseTokens(tokens, i, acc) ==
    IF i > Len(tokens) THEN acc
    ELSE IF tokens[i] \in RedirectOps THEN
        IF i + 1 <= Len(tokens)
        THEN ParseTokens(tokens, i + 2,
                 [acc EXCEPT !.redirects =
                      Append(@, [type |-> RedirectType(tokens[i]),
                                 file |-> tokens[i + 1]])])
        ELSE ParseTokens(tokens, i + 1, [acc EXCEPT !.errors = @ + 1])
    ELSE ParseTokens(tokens, i + 1, [acc EXCEPT !.cmd_parts = Append(@, tokens[i])])

\* the ParsedCommand made of what the loop collected
ParsedOf(text, tokens, acc) ==
    [text |-> text, by |-> "ParsedCommand::parse", tokens |-> tokens,
     program |-> IF acc.cmd_parts = <<>> THEN <<>> ELSE acc.cmd_parts[1],
     args |-> IF Len(acc.cmd_parts) > 1 THEN Tail(acc.cmd_parts) ELSE <<>>,
     redirects |-> acc.redirects, errors |-> acc.errors]

ParsedFrom(text, tokens) ==
    ParsedOf(text, tokens,
             ParseTokens(tokens, 1, [redirects |-> <<>>, cmd_parts |-> <<>>,
                                     errors |-> 0]))

\* ParsedCommand::parse
ParsedCommandParse(text) == ParsedFrom(text, tokenize_with_redirects(text))

(***************************************************************************)
(* redirects.rs, ParsedCommand::execute, and the branch of Shell::run in   *)
(* heredoc.rs that calls it.                                               *)
(***************************************************************************)
\* Stdio::from(f): a standard stream of the child is the open file
StdioFile(name) == [kind |-> "file", pipe |-> 0, name |-> name]

\* File::create(file): the file exists and is empty
FileCreate(fs, name) == (name :> <<>>) @@ fs

\* an append that truncates as File::create does
FileAppend_truncate(fs, name) == (name :> <<>>) @@ fs

\* OpenOptions::new().create(true).append(true).open(file): the file exists
\* and keeps what it holds
FileAppend(fs, name) == IF name \in DOMAIN fs THEN fs ELSE (name :> <<>>) @@ fs

\* execute before its for loop: the files, the child's streams, and whether
\* a ? has returned an error
OpenInit(fs) ==
    [files |-> fs, stdin |-> StdioInherit, stdout |-> StdioInherit, err |-> FALSE]

\* one iteration of the for loop
OpenOne(st, r) ==
    CASE r.type = "StdinFrom" ->
             IF r.file \in DOMAIN st.files
             THEN [st EXCEPT !.stdin = StdioFile(r.file)]
             ELSE [st EXCEPT !.err = TRUE]
      [] r.type = "StdoutTo" ->
             [st EXCEPT !.files = FileCreate(@, r.file),
                        !.stdout = StdioFile(r.file)]
      [] r.type = "StdoutAppend" ->
             [st EXCEPT !.files = FileAppend(@, r.file),
                        !.stdout = StdioFile(r.file)]
      [] r.type = "StderrTo" -> [st EXCEPT !.files = FileCreate(@, r.file)]
      [] r.type = "StderrAppend" -> [st EXCEPT !.files = FileAppend(@, r.file)]
      [] r.type = "BothTo" ->
             [st EXCEPT !.files = FileCreate(@, r.file),
                        !.stdout = StdioFile(r.file)]

\* for redirect in &self.redirects { ... }, left at the first error
RECURSIVE OpenAll(_, _, _)
OpenAll(redirects, k, st) ==
    IF k > Len(redirects) \/ st.err THEN st
    ELSE OpenAll(redirects, k + 1, OpenOne(st, redirects[k]))

\* the lines with a redirection typed at the prompt
F        == <<"f">>
W_hi     == <<"h", "i">>
W_bye    == <<"b", "y", "e">>
D_hi_to        == W_echo \o Sp \o W_hi \o Sp \o Op_out \o Sp \o F
D_bye_append   == W_echo \o Sp \o W_bye \o Sp \o Op_append \o Sp \o F
D_hi_tight     == W_echo \o Sp \o W_hi \o Op_out \o F
D_missing      == W_echo \o Sp \o W_hi \o Sp \o Op_out
D_quoted       == W_echo \o Sp \o <<"\"", ">", "\"">> \o Sp \o F
D_err_to       == W_echo \o Sp \o W_hi \o Sp \o Op_err \o Sp \o F
D_err_append   == W_echo \o Sp \o W_hi \o Sp \o Op_err_append \o Sp \o F
D_both         == W_echo \o Sp \o W_hi \o Sp \o Op_both \o Sp \o F
D_cat_from     == W_cat \o Sp \o Op_in \o Sp \o F
D_nosuch_to    == W_nosuch \o Sp \o Op_out \o Sp \o F

RedirectLines ==
    {D_hi_to, D_bye_append, D_hi_tight, D_missing, D_quoted, D_err_to,
     D_err_append, D_both, D_cat_from, D_nosuch_to}

\* Ok(input) => ... self.history.add(trimmed.clone()); the line holds < or >,
\* no << and no |: let parsed = ParsedCommand::parse(&trimmed).  The guards on
\* history and procs keep the session within the bounds of the model
RedirectParsed(text, trimmed) ==
    /\ pc = "read"
    /\ trimmed # <<>>
    /\ ~\E k \in 1..(Len(trimmed) - 1) : trimmed[k] = "<" /\ trimmed[k + 1] = "<"
    /\ Contains(trimmed, "<") \/ Contains(trimmed, ">")
    /\ ~Contains(trimmed, "|")
    /\ Len(HistoryAdd(history, trimmed).commands) <= MaxHist
    /\ Len(procs) + 1 <= MaxProcs
    /\ history' = HistoryAdd(history, trimmed)
    /\ input' = text
    /\ parsed' = ParsedCommandParse(trimmed)
    /\ out' = <<>>
    /\ pc' = "redirect"
    /\ UNCHANGED <<running, jobs, next_id, procs, fg_child, fg_job, runs, line,
                   executed, issued, done_update, done_fg, returned, reader, files,
                   editor, heredoc>>

RedirectLine(text) == RedirectParsed(text, LineTrimmed(text))

\* parsed.execute(), from the files opened by its for loop on: cmd.status()
\* spawns the child, or the call returns Err and the loop prints it
ExecuteOpened(st) ==
    /\ files' = st.files
    /\ IF ~st.err /\ parsed.program \in Installed
       THEN /\ procs' = Spawn(procs, parsed.program, parsed.args, st.stdin,
                              st.stdout)
            /\ fg_child' = Len(procs) + 1
            /\ pc' = "status"
       ELSE /\ pc' = "loop"
            /\ UNCHANGED <<procs, fg_child>>
    /\ UNCHANGED <<running, history, jobs, next_id, fg_job, runs, input, line,
                   executed, out, issued, done_update, done_fg, returned, reader,
                   parsed, editor, heredoc>>

RedirectExecute ==
    /\ pc = "redirect"
    /\ ExecuteOpened(OpenAll(parsed.redirects, 1, OpenInit(files)))

\* what a child has written to its standard output when it exits: cat copies
\* the file it reads
ChildStdout(c, fs) ==
    IF c.program = W_cat /\ c.stdin.kind = "file" THEN fs[c.stdin.name]
    ELSE ProgramStdout(c.program, c.args)

\* a running child of execute exits; it has written to the file or to the
\* session's standard output
RedirectChildExit(p) ==
    /\ p \in DOMAIN procs
    /\ procs[p].state = "running"
    /\ procs' = [procs EXCEPT ![p].state = "exited"]
    /\ IF procs[p].stdout.kind = "file"
       THEN /\ files' = [files EXCEPT ![procs[p].stdout.name] =
                             @ \o ChildStdout(procs[p], files)]
            /\ out' = out
       ELSE /\ out' = Append(out, ChildStdout(procs[p], files))
            /\ files' = files
    /\ UNCHANGED <<pc, running, history, jobs, next_id, fg_child, fg_job, runs,
                   input, line, executed, issued, done_update, done_fg, returned,
                   reader, parsed, editor, heredoc>>

\* cmd.status() returned; execute returns Ok(())
RedirectReturn ==
    /\ pc = "status"
    /\ procs[fg_child].state = "exited"
    /\ procs' = Reap(procs, {fg_child})
    /\ fg_child' = 0
    /\ pc' = "loop"
    /\ UNCHANGED <<running, history, jobs, next_id, fg_job, runs, input, line,
                   executed, out, issued, done_update, done_fg, returned>>
    /\ UNCHANGED callVars

NextRedirect ==
    \/ UpdateJobs
    \/ \E l \in RedirectLines : RedirectLine(l)
    \/ RedirectExecute
    \/ \E p \in 1..MaxProcs : RedirectChildExit(p)
    \/ RedirectReturn

SpecRedirect == Init /\ [][NextRedirect]_vars

(***************************************************************************)
(* variables.rs: expand_variables.                                         *)
(***************************************************************************)
W_TEST  == <<"T", "E", "S", "T">>
W_value == <<"v", "a", "l", "u", "e">>

\* the environment of the process: TEST and T are set
Env == (W_TEST :> W_value) @@ (<<"T">> :> <<"v">>)

\* next_ch.is_alphanumeric() || next_ch == '_', over the characters of the
\* model
NameChars == {"T", "E", "S", "U", "e", "c", "h", "o", "_"}

\* the number of characters the inner while loop takes from position i on
RECURSIVE NameLen(_, _)
NameLen(text, i) ==
    IF i <= Len(text) /\ text[i] \in NameChars THEN 1 + NameLen(text, i + 1)
    ELSE 0

\* if !var_name.is_empty() { ... } else { result.push('>') }
ExpandName(var_name) ==
    IF var_name # <<>>
    THEN IF var_name \in DOMAIN Env THEN Env[var_name] ELSE <<"$">> \o var_name
    ELSE <<">">>

\* the outer while loop from position i on; at a $, n is the length of the
\* name after it
RECURSIVE ExpandScan(_, _, _)
ExpandAt(text, i, result, n) ==
    ExpandScan(text, i + 1 + n,
               result \o ExpandName(SubSeq(text, i + 1, i + n)))

ExpandScan(text, i, result) ==
    IF i > Len(text) THEN result
    ELSE IF text[i] = "$" THEN ExpandAt(text, i, result, NameLen(text, i + 1))
    ELSE ExpandScan(text, i + 1, Append(result, text[i]))

expand_variables(text) == ExpandScan(text, 1, <<>>)

\* the texts handed to expand_variables: typed from an alphabet, or whole
V_echo_TEST   == W_echo \o Sp \o <<"$">> \o W_TEST
V_echo_dollar == W_echo \o Sp \o <<"$">>
ExpandAlphabet == {"$", "T", "U", "_", " "}

Expanded(text) ==
    [text |-> text, by |-> "expand_variables", result |-> expand_variables(text)]

\* one more character is typed and the text is expanded
ExpandTyped(c) ==
    /\ parsed.by \in {"none", "expand_variables"}
    /\ Len(parsed.text) < MaxText
    /\ parsed' = Expanded(Append(parsed.text, c))
    /\ UNCHANGED <<shellVars, reader, files, editor, heredoc>>

\* a whole line is expanded
ExpandLine(l) ==
    /\ parsed.by = "none"
    /\ parsed' = Expanded(l)
    /\ UNCHANGED <<shellVars, reader, files, editor, heredoc>>

NextVariables ==
    \/ \E c \in ExpandAlphabet : ExpandTyped(c)
    \/ \E l \in {V_echo_TEST, V_echo_dollar} : ExpandLine(l)

SpecVariables == Init /\ [][NextVariables]_vars

(***************************************************************************)
(* editor/core.rs: LineEditor::read_line, with History::previous and       *)
(* History::next of history.rs.                                            *)
(***************************************************************************)
\* char::len_utf8: the one character of the model that takes two bytes
Width(c) == IF c = "é" THEN 2 ELSE 1

\* String::len: the length in bytes
RECURSIVE ByteLen(_)
ByteLen(s) == IF s = <<>> THEN 0 ELSE Width(Head(s)) + ByteLen(Tail(s))

\* char_indices().nth(char_pos).map(|(i, _)| i).unwrap_or(self.buffer.len())
byte_index_at_char_pos(buffer, char_pos) ==
    IF char_pos < Len(buffer) THEN ByteLen(SubSeq(buffer, 1, char_pos))
    ELSE ByteLen(buffer)

\* the number of characters that end at byte offset idx, for an offset on a
\* character boundary
CharsUpTo(s, idx) == CHOOSE k \in 0..Len(s) : ByteLen(SubSeq(s, 1, k)) = idx

\* &self.buffer[..self.byte_index_at_char_pos(char_pos)] and the rest
BufferBefore(buffer, char_pos) ==
    SubSeq(buffer, 1, CharsUpTo(buffer, byte_index_at_char_pos(buffer, char_pos)))
BufferFrom(buffer, char_pos) ==
    SubSeq(buffer, CharsUpTo(buffer, byte_index_at_char_pos(buffer, char_pos)) + 1,
           Len(buffer))

\* String::remove(idx): the string without the character that starts at
\* byte offset idx; a panic when idx is not the start of a character
StringRemove(s, idx) ==
    IF \E k \in 1..Len(s) : ByteLen(SubSeq(s, 1, k - 1)) = idx
    THEN [ok |-> TRUE,
          s |-> SubSeq(s, 1, CharsUpTo(s, idx)) \o SubSeq(s, CharsUpTo(s, idx) + 2, Len(s))]
    ELSE [ok |-> FALSE, s |-> s]

\* History::previous: the history after the call and the Option it returns
\* (a sequence of no or one entry)
HistoryPrevious(h) ==
    IF h.position > 0
    THEN [h |-> [h EXCEPT !.position = @ - 1], entry |-> <<h.commands[h.position]>>]
    ELSE [h |-> h, entry |-> <<>>]

\* History::next.  With no entry, self.commands.len() - 1 overflows: a panic
\* in a build with overflow checks; otherwise it wraps to usize::MAX, the
\* position is incremented and the indexing panics
HistoryNext(h, overflow_checks) ==
    IF h.commands = <<>> THEN
        [h |-> IF overflow_checks THEN h ELSE [h EXCEPT !.position = @ + 1],
         entry |-> <<>>, panic |-> TRUE]
    ELSE IF h.position < Len(h.commands) - 1 THEN
        [h |-> [h EXCEPT !.position = @ + 1], entry |-> <<h.commands[h.position + 2]>>,
         panic |-> FALSE]
    ELSE [h |-> [h EXCEPT !.position = Len(h.commands)], entry |-> <<>>,
          panic |-> FALSE]

\* the editor after a panic at the named place: the panic hook of
\* RawModeGuard disables raw mode
Panicked(e, place) ==
    [e EXCEPT !.status = "panic", !.raw_mode = FALSE, !.by = place, !.held = e.buffer]

\* a return that leaves the terminal in raw mode
Returned_raw(e, by, held) ==
    [e EXCEPT !.status = "ok", !.result = e.buffer, !.by = by, !.held = held]

\* break; Ok(self.buffer.clone()), after the key named by: the guard is
\* dropped; held is what the buffer held when the key came
Returned(e, by, held) ==
    [e EXCEPT !.status = "ok", !.raw_mode = FALSE, !.result = e.buffer,
              !.by = by, !.held = held]

\* a clear that leaves the buffer and the cursor as they are
Cleared_kept(e) == e

\* self.buffer.clear(); self.cursor_pos = 0;
Cleared(e) == [e EXCEPT !.buffer = <<>>, !.cursor_pos = 0]

\* a Ctrl+D that ends the process whatever the buffer holds
CtrlDExits_always(buffer) == TRUE

\* if self.buffer.is_empty()
CtrlDExits(buffer) == buffer = <<>>

\* while word_end > 0 { if !prev_char.is_whitespace() { break; } word_end -= 1; }
RECURSIVE WordEnd(_, _)
WordEnd(buffer, k) ==
    IF k > 0 /\ buffer[k] = " " THEN WordEnd(buffer, k - 1) ELSE k

\* while word_start > 0 { if prev_char.is_whitespace() { break; } word_start -= 1; }
RECURSIVE WordStart(_, _)
WordStart(buffer, k) ==
    IF k > 0 /\ buffer[k] # " " THEN WordStart(buffer, k - 1) ELSE k

\* the characters the keyboard of the model sends, without and with the
\* Tab key, and the lines the session submits
EditorAlphabet == {"a", " ", "é"}
CompletionAlphabet == {"a", ".", "/", " ", "é"}
SubmitLines == {<<"a">>, <<"é">>}

\* everything but the editor and the history
besideEditor == <<pc, running, jobs, next_id, procs, fg_child, fg_job, runs,
                  input, line, executed, out, issued, done_update, done_fg,
                  returned, reader, parsed, files, heredoc>>

\* read_line is entered: the fields are reset and raw mode is enabled
ReadLineCalled ==
    /\ editor.status = "idle"
    /\ editor' = [EditorInit EXCEPT !.raw_mode = TRUE, !.status = "reading"]
    /\ UNCHANGED <<history, besideEditor>>

\* RawModeGuard::enter()? is Err: enable_raw_mode failed, no guard was made
\* and read_line returns the error
EnterFailed ==
    /\ editor.status = "idle"
    /\ editor' = [EditorInit EXCEPT !.status = "err", !.by = "enable_raw_mode"]
    /\ UNCHANGED <<history, besideEditor>>

\* event::read()?, execute!(..)?, flush()? or redraw(prompt)? is Err:
\* read_line returns the error and the guard is dropped
IoFailed ==
    /\ editor.status = "reading"
    /\ editor' = [editor EXCEPT !.status = "err", !.raw_mode = FALSE,
                                !.by = "io", !.held = editor.buffer]
    /\ UNCHANGED <<history, besideEditor>>

\* shell.rs, Shell::run: the line came back and self.history.add(trimmed)
\* is called before the next read; the guards keep the session within the
\* bounds of the model
LineAccepted ==
    /\ editor.status = "ok"
    /\ Trim(editor.result) \in SubmitLines \cup {<<>>}
    /\ Len(HistoryAdd(history, Trim(editor.result)).commands) <= MaxHist
    /\ history' = HistoryAdd(history, Trim(editor.result))
    /\ editor' = [editor EXCEPT !.status = "idle", !.result = <<>>,
                                !.by = "none", !.held = <<>>]
    /\ UNCHANGED besideEditor

\* Enter
KeyEnter ==
    /\ editor.status = "reading"
    /\ editor' = Returned(editor, "Enter", editor.buffer)
    /\ UNCHANGED <<history, besideEditor>>

\* Backspace
KeyBackspace ==
    /\ editor.status = "reading"
    /\ editor' =
           IF editor.cursor_pos > 0
           THEN IF StringRemove(editor.buffer, editor.cursor_pos - 1).ok
                THEN [editor EXCEPT
                         !.cursor_pos = @ - 1,
                         !.buffer = StringRemove(@, editor.cursor_pos - 1).s]
                ELSE Panicked([editor EXCEPT !.cursor_pos = @ - 1], "String::remove")
           ELSE editor
    /\ UNCHANGED <<history, besideEditor>>

\* Delete
KeyDelete ==
    /\ editor.status = "reading"
    /\ editor' =
           IF editor.cursor_pos < ByteLen(editor.buffer)
           THEN IF StringRemove(editor.buffer, editor.cursor_pos).ok
                THEN [editor EXCEPT !.buffer = StringRemove(@, editor.cursor_pos).s]
                ELSE Panicked(editor, "String::remove")
           ELSE editor
    /\ UNCHANGED <<history, besideEditor>>

\* Left arrow
KeyLeft ==
    /\ editor.status = "reading"
    /\ editor' = IF editor.cursor_pos > 0
                 THEN [editor EXCEPT !.cursor_pos = @ - 1] ELSE editor
    /\ UNCHANGED <<history, besideEditor>>

\* Right arrow
KeyRight ==
    /\ editor.status = "reading"
    /\ editor' = IF editor.cursor_pos < ByteLen(editor.buffer)
                 THEN [editor EXCEPT !.cursor_pos = @ + 1] ELSE editor
    /\ UNCHANGED <<history, besideEditor>>

\* Up arrow, from what history.previous() returned
KeyUpFrom(r) ==
    /\ history' = r.h
    /\ editor' = IF r.entry # <<>>
                 THEN [editor EXCEPT !.buffer = r.entry[1],
                                     !.cursor_pos = Len(r.entry[1])]
                 ELSE editor
    /\ UNCHANGED besideEditor

KeyUp == editor.status = "reading" /\ KeyUpFrom(HistoryPrevious(history))

\* Down arrow, from what history.next() did
KeyDownFrom(r) ==
    /\ history' = r.h
    /\ editor' = IF r.panic THEN Panicked(editor, "History::next")
                 ELSE IF r.entry # <<>>
                 THEN [editor EXCEPT !.buffer = r.entry[1],
                                     !.cursor_pos = Len(r.entry[1])]
                 ELSE Cleared(editor)
    /\ UNCHANGED besideEditor

KeyDown ==
    /\ editor.status = "reading"
    /\ \E overflow_checks \in BOOLEAN :
           KeyDownFrom(HistoryNext(history, overflow_checks))

\* Home, Ctrl+A
KeyHome ==
    /\ editor.status = "reading"
    /\ editor' = [editor EXCEPT !.cursor_pos = 0]
    /\ UNCHANGED <<history, besideEditor>>

\* End, Ctrl+E
KeyEnd ==
    /\ editor.status = "reading"
    /\ editor' = [editor EXCEPT !.cursor_pos = Len(editor.buffer)]
    /\ UNCHANGED <<history, besideEditor>>

\* Ctrl+K
KeyCtrlK ==
    /\ editor.status = "reading"
    /\ editor' = [editor EXCEPT !.buffer = BufferBefore(@, editor.cursor_pos)]
    /\ UNCHANGED <<history, besideEditor>>

\* Ctrl+U
KeyCtrlU ==
    /\ editor.status = "reading"
    /\ editor' = [editor EXCEPT !.buffer = BufferFrom(@, editor.cursor_pos),
                                !.cursor_pos = 0]
    /\ UNCHANGED <<history, besideEditor>>

\* Ctrl+W, with the two indices its loops find; chars().nth(..).unwrap()
\* panics for a cursor past the last character; held is what the buffer
\* held when the key came
KeyCtrlWFrom(word_end, word_start) ==
    /\ editor' = [editor EXCEPT
                     !.buffer = BufferBefore(@, word_start) \o BufferFrom(@, word_end),
                     !.cursor_pos = word_start,
                     !.by = "Ctrl+W",
                     !.held = editor.buffer]
    /\ UNCHANGED <<history, besideEditor>>

KeyCtrlW ==
    /\ editor.status = "reading"
    /\ IF editor.cursor_pos = 0 THEN UNCHANGED vars
       ELSE IF editor.cursor_pos > Len(editor.buffer)
       THEN /\ editor' = Panicked(editor, "Option::unwrap")
            /\ UNCHANGED <<history, besideEditor>>
       ELSE KeyCtrlWFrom(WordEnd(editor.buffer, editor.cursor_pos),
                         WordStart(editor.buffer,
                                   WordEnd(editor.buffer, editor.cursor_pos)))

\* Ctrl+C
KeyCtrlC ==
    /\ editor.status = "reading"
    /\ editor' = Returned(Cleared(editor), "Ctrl+C", editor.buffer)
    /\ UNCHANGED <<history, besideEditor>>

\* Ctrl+D: disable_raw_mode and process::exit(0) on an empty buffer
KeyCtrlD ==
    /\ editor.status = "reading"
    /\ editor' = IF CtrlDExits(editor.buffer)
                 THEN [editor EXCEPT !.raw_mode = FALSE, !.status = "exit",
                                     !.by = "Ctrl+D"]
                 ELSE editor
    /\ UNCHANGED <<history, besideEditor>>

\* Ctrl+T
KeyCtrlT ==
    /\ editor.status = "reading"
    /\ editor' =
           IF editor.cursor_pos > 0 /\ editor.cursor_pos < Len(editor.buffer)
           THEN [editor EXCEPT
                    !.buffer = [@ EXCEPT
                                   ![editor.cursor_pos] = editor.buffer[editor.cursor_pos + 1],
                                   ![editor.cursor_pos + 1] = editor.buffer[editor.cursor_pos]],
                    !.cursor_pos = @ + 1]
           ELSE editor
    /\ UNCHANGED <<history, besideEditor>>

\* a character key; the guard keeps the buffer within the bound of the model
KeyChar(c) ==
    /\ editor.status = "reading"
    /\ Len(editor.buffer) < MaxBuffer
    /\ editor' = [editor EXCEPT
                     !.buffer = BufferBefore(@, editor.cursor_pos) \o <<c>>
                                    \o BufferFrom(@, editor.cursor_pos),
                     !.cursor_pos = @ + 1]
    /\ UNCHANGED <<history, besideEditor>>

(***************************************************************************)
(* editor/completion.rs and LineEditor::handle_tab_completion.             *)
(***************************************************************************)
\* str::rfind: the place of the last c in s, 0 when there is none
RFind(s, c) == IF Contains(s, c) THEN MaxOf({i \in 1..Len(s) : s[i] = c}) ELSE 0

\* str::starts_with
StartsWith(s, prefix) ==
    Len(prefix) <= Len(s) /\ SubSeq(s, 1, Len(prefix)) = prefix

\* split_dir_prefix, for a path that holds a '/' at place idx
split_dir_prefix(path, idx) ==
    [dir |-> IF idx = 1 THEN <<"/">> ELSE SubSeq(path, 1, idx - 1),
     prefix |-> SubSeq(path, idx + 1, Len(path))]

\* the file system: the root directory is the working directory and the one
\* directory of PATH; it holds the executable aa, the plain file .a and the
\* empty directory é.  The entries are in the order sort() gives them.
RootEntries ==
    << [name |-> <<".", "a">>, is_dir |-> FALSE, mode_x |-> FALSE],
       [name |-> <<"a", "a">>, is_dir |-> FALSE, mode_x |-> TRUE],
       [name |-> <<"é">>, is_dir |-> TRUE, mode_x |-> TRUE] >>

\* the directory a path names, walking its components from directory d on:
\* "root", "sub" (the directory é) or "none" (fs::read_dir fails)
RECURSIVE WalkDir(_, _)
WalkDir(d, components) ==
    IF components = <<>> \/ d = "none" THEN d
    ELSE WalkDir(CASE Head(components) \in {<<>>, <<".">>} -> d
                   [] Head(components) = <<".", ".">> -> "root"
                   [] Head(components) = <<"é">> /\ d = "root" -> "sub"
                   [] OTHER -> "none",
                 Tail(components))

\* the entries fs::read_dir(dir) yields
ReadDir(dir) ==
    IF WalkDir("root", Split(dir, "/")) = "root" THEN RootEntries ELSE <<>>

\* the name list_dir_matches pushes for an entry
MatchName(entry) == IF entry.is_dir THEN entry.name \o <<"/">> ELSE entry.name

\* the names of the entries in es from place k on that start with prefix
\* (and, for a command, have an execute bit)
RECURSIVE Matches(_, _, _, _)
Matches(es, k, prefix, command) ==
    IF k > Len(es) THEN <<>>
    ELSE IF StartsWith(es[k].name, prefix) /\ (command => es[k].mode_x)
    THEN <<IF command THEN es[k].name ELSE MatchName(es[k])>>
             \o Matches(es, k + 1, prefix, command)
    ELSE Matches(es, k + 1, prefix, command)

\* list_dir_matches: Err when read_dir fails
list_dir_matches(dir, prefix) ==
    IF WalkDir("root", Split(dir, "/")) = "none"
    THEN [ok |-> FALSE, matches |-> <<>>]
    ELSE [ok |-> TRUE, matches |-> Matches(ReadDir(dir), 1, prefix, FALSE)]

\* list_path_commands, with PATH=/
list_path_commands(prefix) ==
    [ok |-> TRUE, matches |-> Matches(ReadDir(<<"/">>), 1, prefix, TRUE)]

\* first.chars().zip(s.chars()).take_while(|(a, b)| a == b).count()
RECURSIVE ZipCount(_, _)
ZipCount(first, s) ==
    IF first # <<>> /\ s # <<>> /\ Head(first) = Head(s)
    THEN 1 + ZipCount(Tail(first), Tail(s)) ELSE 0

\* the for loop of common_prefix over strings[k..], from prefix_len
RECURSIVE CommonLen(_, _, _)
CommonLen(strings, k, prefix_len) ==
    IF k > Len(strings) THEN prefix_len
    ELSE CommonLen(strings, k + 1,
                   IF ZipCount(strings[1], strings[k]) < prefix_len
                   THEN ZipCount(strings[1], strings[k]) ELSE prefix_len)

\* common_prefix: prefix_len starts as the byte length of the first string
common_prefix(strings) ==
    IF strings = <<>> THEN <<>>
    ELSE SubSeq(strings[1], 1,
                IF CommonLen(strings, 2, ByteLen(strings[1])) < Len(strings[1])
                THEN CommonLen(strings, 2, ByteLen(strings[1]))
                ELSE Len(strings[1]))

\* the token under the cursor: the number of characters before it
\* (token_start_char) and the token
TabToken(e) ==
    [start |-> RFind(BufferBefore(e.buffer, e.cursor_pos), " "),
     token |-> SubSeq(BufferBefore(e.buffer, e.cursor_pos),
                      RFind(BufferBefore(e.buffer, e.cursor_pos), " ") + 1,
                      Len(BufferBefore(e.buffer, e.cursor_pos)))]

\* drain(token_start..cursor); insert_str(token_start, full_completion);
\* cursor_pos = token_start_char + full_completion.chars().count()
TabReplace(e, start, full_completion) ==
    [e EXCEPT !.buffer = SubSeq(e.buffer, 1, start) \o full_completion
                             \o BufferFrom(e.buffer, e.cursor_pos),
              !.cursor_pos = start + Len(full_completion)]

\* the path branch, for the dir and prefix split_dir_prefix returned: the
\* matches it lists (m), the prefix they were listed for (typed) and what
\* it puts before the name (lead)
TabPath(sp) ==
    [m |-> list_dir_matches(sp.dir, sp.prefix), typed |-> sp.prefix,
     lead |-> IF sp.dir = <<".">> THEN <<>> ELSE sp.dir \o <<"/">>]

\* the branch handle_tab_completion takes for the token t: path, command
\* (first token) or file in the working directory
TabBranch(t) ==
    IF Contains(t.token, "/")
    THEN TabPath(split_dir_prefix(t.token, RFind(t.token, "/")))
    ELSE IF t.start = 0
    THEN [m |-> list_path_commands(t.token), typed |-> t.token, lead |-> <<>>]
    ELSE [m |-> list_dir_matches(<<".">>, t.token), typed |-> t.token,
          lead |-> <<>>]

\* what each of the three branches does with its matches
TabComplete(e, start, b) ==
    IF ~b.m.ok THEN [e |-> e, ret |-> "err"]
    ELSE IF b.m.matches = <<>> THEN [e |-> e, ret |-> "false"]
    ELSE IF ByteLen(common_prefix(b.m.matches)) > ByteLen(b.typed)
    THEN [e |-> TabReplace(e, start, b.lead \o common_prefix(b.m.matches)),
          ret |-> "true"]
    ELSE IF Len(b.m.matches) = 1
    THEN [e |-> TabReplace(e, start, b.lead \o b.m.matches[1]), ret |-> "true"]
    ELSE [e |-> e, ret |-> "false"]

\* handle_tab_completion, for the token t under the cursor
TabFor(e, t) ==
    IF t.token = <<>> THEN [e |-> e, ret |-> "false"]
    ELSE TabComplete(e, t.start, TabBranch(t))

handle_tab_completion(e) == TabFor(e, TabToken(e))

\* Tab, from what handle_tab_completion returned; its Err leaves read_line
\* by the ? operator.  The guard keeps the buffer within the bound of the
\* model: a completion may make it one character longer than typing can
KeyTabFrom(r) ==
    /\ Len(r.e.buffer) <= MaxBuffer + 1
    /\ editor' = IF r.ret = "err"
                 THEN [editor EXCEPT !.status = "err", !.raw_mode = FALSE,
                                     !.by = "Tab", !.held = editor.buffer,
                                     !.tab = "err"]
                 ELSE [r.e EXCEPT !.tab = r.ret, !.held = editor.buffer]
    /\ UNCHANGED <<history, besideEditor>>

KeyTab == editor.status = "reading" /\ KeyTabFrom(handle_tab_completion(editor))

\* read_line with every key but Tab, and the history
NextEditor ==
    \/ ReadLineCalled
    \/ EnterFailed
    \/ IoFailed
    \/ LineAccepted
    \/ KeyEnter
    \/ KeyBackspace
    \/ KeyDelete
    \/ KeyLeft
    \/ KeyRight
    \/ KeyUp
    \/ KeyDown
    \/ KeyHome
    \/ KeyEnd
    \/ KeyCtrlK
    \/ KeyCtrlU
    \/ KeyCtrlC
    \/ KeyCtrlD
    \/ KeyCtrlT
    \/ \E c \in EditorAlphabet : KeyChar(c)

SpecEditor == Init /\ [][NextEditor]_vars

\* read_line with Ctrl+W, typing and the keys that move the cursor
NextWord ==
    \/ ReadLineCalled
    \/ KeyLeft
    \/ KeyRight
    \/ KeyHome
    \/ KeyEnd
    \/ KeyCtrlW
    \/ \E c \in EditorAlphabet : KeyChar(c)

SpecWord == Init /\ [][NextWord]_vars

\* read_line with the Tab key, typing and the keys that move the cursor or
\* end the read
NextCompletion ==
    \/ ReadLineCalled
    \/ KeyEnter
    \/ KeyLeft
    \/ KeyRight
    \/ KeyHome
    \/ KeyEnd
    \/ KeyTab
    \/ KeyCtrlC
    \/ KeyCtrlD
    \/ \E c \in CompletionAlphabet : KeyChar(c)

SpecCompletion == Init /\ [][NextCompletion]_vars

(***************************************************************************)
(* heredoc.rs: read_heredoc_lines, one step per line read.                 *)
(***************************************************************************)
\* the delimiter of the heredoc, and the lines standard input may hold: a
\* line carries its newline, except a last line cut off by end-of-file
HeredocDelimiter == <<"E">>
HeredocLines ==
    {<<"x", "\n">>, <<"E", " ", "\n">>, <<"E", "\n">>, <<"x">>, <<"E">>}

\* what standard input may hold: only the last line may lack its newline
HeredocInputs ==
    {s \in UNION {[1..n -> HeredocLines] : n \in 0..MaxBody} :
        \A k \in 1..Len(s) - 1 : s[k][Len(s[k])] = "\n"}

\* line.trim_end_matches('\n')
RECURSIVE TrimEndMatches(_, _)
TrimEndMatches(l, c) ==
    IF l # <<>> /\ l[Len(l)] = c THEN TrimEndMatches(SubSeq(l, 1, Len(l) - 1), c)
    ELSE l

\* one pass of the loop body: stdin.read_line(&mut line)? leaves line empty
\* at end-of-file; the line is compared without its newline and pushed as
\* read
HeredocRead(h, delimiter) ==
    LET l == IF h.stdin = <<>> THEN <<>> ELSE Head(h.stdin)
        rest == IF h.stdin = <<>> THEN <<>> ELSE Tail(h.stdin)
    IN  IF TrimEndMatches(l, "\n") = delimiter
        THEN [h EXCEPT !.stdin = rest, !.status = "done"]
        ELSE [h EXCEPT !.stdin = rest, !.lines = Append(@, l)]

\* execute_heredoc calls read_heredoc_lines(delimiter)
HeredocCalled ==
    /\ heredoc.status = "idle"
    /\ \E s \in HeredocInputs :
           heredoc' = [input |-> s, stdin |-> s, lines |-> <<>>,
                       status |-> "reading"]
    /\ UNCHANGED <<shellVars, reader, parsed, files, editor>>

\* one pass of the loop; the guard keeps the lines collected within the
\* bounds of the model
HeredocReadLine ==
    /\ heredoc.status = "reading"
    /\ Len(heredoc.lines) <= MaxBody + 1
    /\ heredoc' = HeredocRead(heredoc, HeredocDelimiter)
    /\ UNCHANGED <<shellVars, reader, parsed, files, editor>>

\* Ok(lines): the call has returned and another may follow
HeredocReturned ==
    /\ heredoc.status = "done"
    /\ heredoc' = HeredocInit
    /\ UNCHANGED <<shellVars, reader, parsed, files, editor>>

NextHeredoc ==
    \/ HeredocCalled
    \/ HeredocReadLine
    \/ HeredocReturned

SpecHeredoc == Init /\ [][NextHeredoc]_vars

(***************************************************************************)
(* The properties.                                                         *)
(***************************************************************************)
\* the loop has finished with line text: it is back at the top of the loop,
\* at the next prompt, or has ended
Finished(text) == input = text /\ pc \in {"loop", "read", "stopped"}

\* echo wrote X to the session's standard output for the current line
PrintedX == \E k \in 1..Len(out) : out[k] = W_X

\* C1: a line of sub-commands joined by &&, || or ; runs them in order with
\* short-circuit: once the loop has finished with the line,
\* `false && echo X` has not printed X, `false || echo X` has printed X and
\* `true ; echo X` has printed X.
C1_ChainShortCircuit ==
    /\ Finished(L_false_and_echo) => ~PrintedX
    /\ Finished(L_false_or_echo) => PrintedX
    /\ Finished(L_true_semi_echo) => PrintedX

\* C1: the loop has finished with `true ; echo X`, having run the one
\* command `true` with the arguments `;`, `echo`, `X`
C1_SemiLineFinished ==
    /\ Finished(L_true_semi_echo)
    /\ executed = <<Cmd("External", W_true, <<W_semi, W_echo, W_X>>, FALSE, 0)>>

\* C2: when a sub-command of a chain is exit the session stops: once the
\* loop has finished with `true ; exit`, the running flag is false.
C2_ExitInChainStops == Finished(L_true_semi_exit) => ~running

\* C2: the loop has finished with `true ; exit` and goes on to the next prompt
C2_SemiExitFinished == Finished(L_true_semi_exit) /\ pc = "read" /\ running

\* C3: a single external command with a trailing & is executed with its
\* background flag set: the loop never waits on its child, and when the loop
\* has carried the line out the child it spawned is a Running job of the table.
C3_TrailingAmpBecomesJob ==
    input = L_sleep_amp =>
        /\ pc # "status"
        /\ executed # <<>> => executed[1].background
        /\ pc = "loop" =>
              \E id \in DOMAIN jobs :
                  jobs[id].pid = Len(procs) /\ jobs[id].status = "Running"

\* C3: the loop is blocked in cmd.status() on the child of `sleep &`
C3_AmpLineWaited ==
    input = L_sleep_amp /\ pc = "status" /\ procs[fg_child].program = W_sleep

\* C4: add_job returns 1 on its first call and a strictly larger identifier
\* on every later call, so no identifier is handed out twice, whatever
\* update_jobs and remove_job did to the table in between.
C4_IdsIncreasing ==
    /\ issued # <<>> => issued[1] = 1
    /\ \A i, j \in 1..Len(issued) : i < j => issued[i] < issued[j]

\* C4: add_job was called again after the job of its first call had left
\* the table
C4_IssuedAfterEviction == Len(issued) >= 2 /\ issued[1] \notin DOMAIN jobs

\* C5: a pass of update_jobs prints one completion line for every job whose
\* process has exited and removes it in that pass, and leaves every other
\* job as it was; no job is reported twice, a reported job is never in the
\* table again, and nothing but update_jobs prints a completion line.
C5_UpdateJobsOnce ==
    [][/\ (pc = "loop" /\ pc' = "read") =>
              \A id \in DOMAIN jobs :
                  IF jobs[id].process /\ procs[jobs[id].pid].state = "exited"
                  THEN /\ id \notin DOMAIN jobs'
                       /\ done_update'[id] = done_update[id] + 1
                  ELSE /\ id \in DOMAIN jobs'
                       /\ jobs'[id] = jobs[id]
                       /\ done_update'[id] = done_update[id]
       /\ \A id \in DOMAIN done_update' :
              /\ done_update'[id] <= 1
              /\ done_update'[id] = 1 => id \notin DOMAIN jobs'
       /\ ~(pc = "loop" /\ pc' = "read") =>
              \A id \in DOMAIN done_update : done_update'[id] = done_update[id]]_vars

\* C5: update_jobs has reported one job and left another, whose process is
\* still running, in the table
C5_OneReportedOneKept ==
    /\ pc = "read"
    /\ \E id \in DOMAIN done_update : done_update[id] = 1
    /\ \E id \in DOMAIN jobs :
           /\ jobs[id].status = "Running"
           /\ procs[jobs[id].pid].state = "running"

\* C6: fg takes the job out of the table before it waits, and prints the
\* Done line only for a process that has exited; a job that fg took is never
\* reported by update_jobs, so every job that has left the table and is not
\* being waited on was reported exactly once, by fg or by update_jobs.
C6_FgRemovesFirst ==
    /\ pc = "fg_wait" =>
           /\ fg_job.id \notin DOMAIN jobs
           /\ done_update[fg_job.id] + done_fg[fg_job.id] = 0
    /\ \A id \in DOMAIN done_fg :
           /\ done_update[id] + done_fg[id] <= 1
           /\ done_fg[id] = 1 => id \notin DOMAIN jobs
           /\ (id \notin DOMAIN jobs /\ ~(pc = "fg_wait" /\ fg_job.id = id))
                  => done_update[id] + done_fg[id] = 1

\* C6: fg has printed the Done line of a job, and update_jobs has run since
C6_FgReported ==
    /\ pc = "read"
    /\ \E id \in DOMAIN done_fg : done_fg[id] = 1 /\ done_update[id] = 0

\* C7: in a run_pipeline call of two or more stages, the first stage spawned
\* has the session's standard input, every later one reads the pipe that is
\* the standard output of the stage spawned before it, and the last stage of
\* the list writes to the session's standard output.
C7_StageWiring ==
    \A r \in DOMAIN runs :
        LET f == runs[r]
        IN  Len(f.commands) >= 2 =>
                \A k \in 1..Len(f.children) :
                    /\ k = 1 => procs[f.children[k]].stdin = StdioInherit
                    /\ k > 1 =>
                          /\ procs[f.children[k]].stdin = StdioPipe(f.children[k - 1])
                          /\ procs[f.children[k - 1]].stdout = StdioPipe(f.children[k - 1])
                    /\ f.stages[k] = Len(f.commands) =>
                          procs[f.children[k]].stdout = StdioInherit

\* C7: a call has spawned all of its three stages
C7_ThreeStagesSpawned ==
    \E r \in DOMAIN runs :
        /\ Len(runs[r].commands) = 3
        /\ Len(runs[r].children) = 3
        /\ runs[r].stages = <<1, 2, 3>>

\* C8: in a foreground pipeline no stage is waited on before the for loop
\* over the stages has ended, and run_pipeline returns to the loop only after
\* every stage it spawned has exited.
C8_ReturnsAfterAllExited ==
    /\ 0 \in DOMAIN runs /\ runs[0].w > 1 => runs[0].i > Len(runs[0].commands)
    /\ returned.any /\ returned.runner = 0 =>
           \A k \in 1..Len(returned.children) :
               procs[returned.children[k]].state # "running"

\* C9: when the spawn of a stage fails, run_pipeline returns its error only
\* after it has waited on every stage spawned before.
C9_SpawnFailureStillWaits ==
    returned.any /\ returned.err =>
        \A k \in 1..Len(returned.children) :
            procs[returned.children[k]].state = "reaped"

\* C9: run_pipeline has returned an error, with a stage it spawned neither
\* waited on nor exited
C9_ReturnedWithRunningStage ==
    /\ returned.any /\ returned.err
    /\ \E k \in 1..Len(returned.children) :
           procs[returned.children[k]].state = "running"

\* C10: for a pipeline line ending in &, the step the loop takes from the
\* dispatch hands the stages to a new thread, spawning nothing and waiting for
\* nothing, and puts the loop back at its top; the loop itself never runs
\* the pipeline of such a line.
C10_BackgroundPipelineDetached ==
    [][/\ (pc = "dispatch" /\ pc' # "dispatch" /\ line.pipeline /\ line.background)
              => /\ pc' = "loop"
                 /\ procs' = procs
                 /\ 0 \notin DOMAIN runs'
                 /\ \E t \in Threads :
                        /\ t \notin DOMAIN runs
                        /\ t \in DOMAIN runs'
                        /\ runs'[t] = Frame(line.commands)
       /\ (pc' = "pipeline" => ~line'.background)]_vars

\* C10: the loop has carried out `echo X` while a stage of a background
\* pipeline is still running on its thread
C10_LineRunDuringPipeline ==
    /\ Finished(L_echo)
    /\ PrintedX
    /\ \E t \in Threads \cap DOMAIN runs :
           \E k \in 1..Len(runs[t].children) :
               procs[runs[t].children[k]].state = "running"

\* C12: when a line ends in exactly one backslash, the input returned for it
\* and the line after it is the first line without the backslash, one space,
\* and the second line.
C12_BackslashJoinsWithSpace ==
    (/\ Len(reader.lines) = 2
     /\ reader.why = "submit"
     /\ TrailingBackslashes(reader.lines[1]) = 1)
        => reader.full_input =
               without_backslash(reader.lines[1]) \o <<" ">> \o reader.lines[2]

\* C12: the reader has returned `a`, a newline, `b` for the lines `a\` and `b`
C12_JoinedWithNewline ==
    /\ reader.lines = <<R_a_bs, R_b>>
    /\ reader.why = "submit"
    /\ reader.full_input = <<"a", "\n", "b">>

\* C13: the reader continues a line by the backslash rule exactly when the
\* run of backslashes at the end of the line has odd length.
C13_ContinuedIffOddRun ==
    reader.lines # <<>> =>
        (reader.why = "backslash"
            <=> TrailingBackslashes(reader.lines[Len(reader.lines)]) % 2 = 1)

\* C13: the reader has continued the line `a\ `, which ends in a space
C13_ContinuedLineEndingInSpace ==
    reader.lines = <<R_a_bs_sp>> /\ reader.why = "backslash"

\* C14, as stated: while the accumulated input ends inside an open quote,
\* every further line is appended to it after a newline and the check is
\* run again on the whole of it; the input is submitted when the check is
\* false.
C14_EveryLineAppended ==
    [][(reader.why = "quote" /\ reader' # reader) =>
           /\ reader'.full_input =
                  reader.full_input \o <<"\n">> \o reader'.lines[Len(reader'.lines)]
           /\ reader'.why = IF needs_line_continuation(reader'.full_input)
                            THEN "quote" ELSE "submit"]_vars

\* C14, amended: the same for every further line that does not end in an odd
\* run of backslashes; a line that does is joined by the backslash rule
\* (a space, the line without its backslash) and the check is not run on it.
\* The reader continues for an open quote only when the check on the whole
\* input is true and returns only when it is false.
C14_LineAppendedUnlessBackslash ==
    [][/\ (reader.why = "quote" /\ reader' # reader) =>
              IF has_trailing_backslash(reader'.lines[Len(reader'.lines)])
              THEN /\ reader'.full_input =
                          reader.full_input \o <<" ">>
                              \o without_backslash(reader'.lines[Len(reader'.lines)])
                   /\ reader'.why = "backslash"
              ELSE /\ reader'.full_input =
                          reader.full_input \o <<"\n">>
                              \o reader'.lines[Len(reader'.lines)]
                   /\ reader'.why = IF needs_line_continuation(reader'.full_input)
                                    THEN "quote" ELSE "submit"
       /\ reader'.why = "quote" => needs_line_continuation(reader'.full_input)
       /\ reader'.why = "submit" => ~needs_line_continuation(reader'.full_input)]_vars

\* C14: the reader has returned three lines, the first of which opened a
\* quote that the third closed
C14_ThreeLinesSubmitted ==
    /\ reader.lines = <<R_open, R_b, R_close>>
    /\ reader.why = "submit"
    /\ reader.full_input = <<"\"", "a", "\n", "b", "\n", "b", "\"">>

\* C15: parsing `echo 'a\ b'` yields echo with the one argument `a\ b`, and
\* in general a backslash inside single quotes stays in the argument with
\* the character after it: `'\a'` is the argument `\a`.
C15_BackslashKeptInSingleQuotes ==
    /\ parsed.text = T_echo_quoted =>
           parsed.cmd = Cmd("Echo", W_echo, <<<<"a", "\\", " ", "b">>>>, FALSE, 0)
    /\ parsed.text = <<"'", "\\", "a", "'">> => parsed.args = <<<<"\\", "a">>>>

\* C15: `echo 'a\ b'` was parsed to echo with the argument `a b`
C15_BackslashDropped ==
    /\ parsed.text = T_echo_quoted
    /\ parsed.cmd = Cmd("Echo", W_echo, <<<<"a", " ", "b">>>>, FALSE, 0)

\* the characters of text are all in S
Over(text, S) == \A k \in 1..Len(text) : text[k] \in S

\* C16: a text of letters, spaces and tabs is split at every run of spaces
\* and tabs, with no empty argument; the same characters between two single
\* quotes are one argument.
C16_WhitespaceSplits ==
    parsed.by = "Command::parse" =>
        /\ Over(parsed.text, {"a", " ", "\t"}) =>
               parsed.args = SplitWhitespace(parsed.text)
        /\ (/\ Len(parsed.text) >= 3
            /\ parsed.text[1] = "'"
            /\ parsed.text[Len(parsed.text)] = "'"
            /\ Over(SubSeq(parsed.text, 2, Len(parsed.text) - 1), {"a", " ", "\t"}))
               => parsed.args = <<SubSeq(parsed.text, 2, Len(parsed.text) - 1)>>

\* C16: `a`, tab, `a` was tokenized to one argument
C16_TabNotSplit ==
    /\ parsed.text = <<"a", "\t", "a">>
    /\ parsed.args = <<<<"a", "\t", "a">>>>

\* opening minus closing parentheses among the first k characters
RECURSIVE ParenDepth(_, _)
ParenDepth(text, k) ==
    IF k = 0 THEN 0
    ELSE ParenDepth(text, k - 1)
             + (IF text[k] = "(" THEN 1 ELSE IF text[k] = ")" THEN -1 ELSE 0)

\* a parenthesis is closed that was not opened, or one is left open
Unbalanced(text) ==
    \/ \E k \in 1..Len(text) : ParenDepth(text, k) < 0
    \/ ParenDepth(text, Len(text)) > 0

\* C17: Command::parse returns None for every text whose parentheses are
\* unbalanced.
C17_UnbalancedIsNone ==
    (parsed.by = "Command::parse" /\ Unbalanced(parsed.text))
        => parsed.cmd = NoCommand

\* C17: a text with a parenthesis left open inside another was parsed to None
C17_UnclosedParsed ==
    /\ parsed.text = T_unclosed
    /\ Unbalanced(parsed.text)
    /\ parsed.cmd = NoCommand

C18_OperatorsOnlyOutsideQuotes ==
    parsed.by = "ParsedCommand::parse" =>
        /\ parsed.text = D_hi_tight =>
               /\ parsed.tokens = <<W_echo, W_hi, Op_out, F>>
               /\ parsed.redirects = <<[type |-> "StdoutTo", file |-> F]>>
               /\ parsed.program = W_echo /\ parsed.args = <<W_hi>>
        /\ parsed.text = D_quoted =>
               /\ parsed.redirects = <<>>
               /\ parsed.program = W_echo /\ parsed.args = <<Op_out, F>>

\* C18: the quoted > of echo ">" f was taken as the operator, and f as its
\* path; echo is left without arguments.
C18_QuotedOperatorRedirects ==
    /\ parsed.by = "ParsedCommand::parse"
    /\ parsed.text = D_quoted
    /\ parsed.redirects = <<[type |-> "StdoutTo", file |-> F]>>
    /\ parsed.args = <<>>

\* C19: a line whose redirect operator has no target is discarded: no child
\* is run for it.
C19_MissingTargetDiscards ==
    (parsed.by = "ParsedCommand::parse" /\ parsed.errors > 0) => pc # "status"

\* C19: echo hi > was read, the error was counted, and the loop waits for
\* the echo child it spawned for the line.
C19_MissingTargetSpawned ==
    /\ pc = "status"
    /\ input = D_missing
    /\ parsed.errors = 1 /\ parsed.redirects = <<>>
    /\ procs[fg_child].program = W_echo /\ procs[fg_child].args = <<W_hi>>

\* C20: execute creates or truncates the target of >, 2> and &>, and creates
\* the target of >> and 2>> or keeps what it holds; the child writes at the
\* end of the file; echo hi > f then echo bye >> f leave hi and bye, each
\* with its newline, in f.
C20_CreateTruncatesAppendKeeps ==
    [][/\ (pc = "redirect" /\ Len(parsed.redirects) = 1) =>
              /\ parsed.redirects[1].type \in {"StdoutTo", "StderrTo", "BothTo"} =>
                     /\ parsed.redirects[1].file \in DOMAIN files'
                     /\ files'[parsed.redirects[1].file] = <<>>
              /\ parsed.redirects[1].type \in {"StdoutAppend", "StderrAppend"} =>
                     /\ parsed.redirects[1].file \in DOMAIN files'
                     /\ files'[parsed.redirects[1].file] =
                            IF parsed.redirects[1].file \in DOMAIN files
                            THEN files[parsed.redirects[1].file] ELSE <<>>
       /\ \A p \in DOMAIN procs :
              (procs[p].state = "running" /\ procs'[p].state = "exited"
               /\ procs[p].stdout.kind = "file" /\ procs[p].program = W_echo) =>
                  files'[procs[p].stdout.name] =
                      files[procs[p].stdout.name] \o JoinSpace(procs[p].args)
                          \o <<"\n">>
       /\ (/\ history'.commands = <<D_hi_to, D_bye_append>>
           /\ Len(procs') = 2
           /\ pc' = "loop") =>
              files'[F] = W_hi \o <<"\n">> \o W_bye \o <<"\n">>
      ]_vars

\* C20: echo hi > f, then echo bye >> f, have both run, and f holds the two
\* lines.
C20_HiThenBye ==
    /\ pc = "loop"
    /\ history.commands = <<D_hi_to, D_bye_append>>
    /\ Len(procs) = 2
    /\ F \in DOMAIN files
    /\ files[F] = W_hi \o <<"\n">> \o W_bye \o <<"\n">>

\* C22: History::add appends nothing when the command equals the last entry
\* (or is blank) and appends the command otherwise, so no two neighbouring entries are
\* equal; the entries already there stay as they are, in their places.
C22_AddSkipsRepeat ==
    [][/\ Len(history'.commands) >= Len(history.commands)
       /\ SubSeq(history'.commands, 1, Len(history.commands)) = history.commands
       /\ (pc = "dispatch" /\ pc' # "dispatch" /\ ~line.empty) =>
              history'.commands =
                  IF \/ Trim(line.trimmed) = <<>>
                     \/ /\ history.commands # <<>>
                        /\ history.commands[Len(history.commands)] = line.trimmed
                  THEN history.commands
                  ELSE Append(history.commands, line.trimmed)
       /\ \A k \in 1..(Len(history'.commands) - 1) :
              history'.commands[k] # history'.commands[k + 1]
      ]_vars

\* C22: the same line was submitted twice in a row (each submission made a
\* job) and the history holds it once.
C22_SubmittedTwiceHeldOnce ==
    /\ Len(issued) = 2
    /\ pc = "loop"
    /\ history.commands = <<LineTrimmed(input)>>

\* C29: every iteration of the run loop begins with one pass of update_jobs:
\* the prompt is read only after the pass, a command is dispatched only after
\* the read, the pass evicts and reports every job whose process has exited
\* by then, and no completion is reported at any other point of the iteration.
C29_UpdateBeforeEveryRead ==
    [][/\ (pc' = "read" /\ pc # "read") =>
              /\ pc = "loop"
              /\ \A id \in DOMAIN jobs :
                     (jobs[id].process /\ procs[jobs[id].pid].state = "exited") =>
                         /\ id \notin DOMAIN jobs'
                         /\ done_update'[id] = done_update[id] + 1
       /\ (pc' = "dispatch" /\ pc # "dispatch") => pc = "read"
       /\ (pc = "loop" /\ pc' # "loop") => pc' \in {"read", "stopped"}
       /\ pc # "loop" =>
              /\ \A id \in DOMAIN done_update : done_update'[id] = done_update[id]
              /\ \A id \in DOMAIN jobs \ DOMAIN jobs' : pc \in {"dispatch", "fg_wait"}
      ]_vars

\* C29: a job whose process exited was reported and evicted by the pass of
\* this iteration, and the command read after it is about to be executed.
C29_ReportedBeforeDispatch ==
    /\ pc = "dispatch"
    /\ ~line.empty
    /\ \E id \in DOMAIN done_update :
           /\ done_update[id] = 1
           /\ id \notin DOMAIN jobs

\* C30: expand_variables turns `echo $TEST` into `echo value`, and returns a
\* text in which no $ is followed by the name of a set variable as it is:
\* every character is copied and an unset $NAME is kept as written.
C30_ExpandReplacesSetNamesOnly ==
    parsed.by = "expand_variables" =>
        /\ parsed.text = V_echo_TEST => parsed.result = W_echo \o Sp \o W_value
        /\ (\A i \in 1..Len(parsed.text) :
                parsed.text[i] = "$" =>
                    SubSeq(parsed.text, i + 1, i + NameLen(parsed.text, i + 1))
                        \notin DOMAIN Env)
           => parsed.result = parsed.text

\* C30: a $ that no name follows came out as >.
C30_LoneDollarBecomesGreater ==
    /\ parsed.by = "expand_variables"
    /\ parsed.text = V_echo_dollar
    /\ parsed.result = W_echo \o Sp \o <<">">>

\* C21: after any add, previous and next on a History, with or without
\* entries, the position is at most the number of entries and no call has
\* failed.
C21_PositionInRange ==
    /\ history.position >= 0
    /\ history.position <= Len(history.commands)
    /\ ~(editor.status = "panic" /\ editor.by = "History::next")

\* C21: Down was pressed with an empty history and History::next panicked.
C21_NextOnEmptyPanicked ==
    /\ editor.status = "panic"
    /\ editor.by = "History::next"
    /\ history.commands = <<>>

\* C23: while read_line reads keys, the cursor is at most the number of
\* characters of the buffer.
C23_CursorWithinBuffer ==
    editor.status = "reading" =>
        editor.cursor_pos >= 0 /\ editor.cursor_pos <= Len(editor.buffer)

\* C23: the buffer holds the one two-byte character and the cursor is 2.
C23_CursorPastLastChar ==
    /\ editor.status = "reading"
    /\ editor.buffer = <<"é">>
    /\ editor.cursor_pos = 2

\* C24: with the cursor inside the buffer, Backspace removes the character
\* before the cursor and moves the cursor back, Delete removes the character
\* at the cursor, each leaves the other characters in their order, and each
\* does nothing at its boundary.
C24_RemovesOneCharacter ==
    [][(editor.status = "reading" /\ editor.cursor_pos <= Len(editor.buffer)) =>
           /\ KeyBackspace =>
                  editor' =
                      IF editor.cursor_pos > 0
                      THEN [editor EXCEPT
                               !.buffer = SubSeq(@, 1, editor.cursor_pos - 1)
                                              \o SubSeq(@, editor.cursor_pos + 1, Len(@)),
                               !.cursor_pos = @ - 1]
                      ELSE editor
           /\ KeyDelete =>
                  editor' =
                      IF editor.cursor_pos < Len(editor.buffer)
                      THEN [editor EXCEPT
                               !.buffer = SubSeq(@, 1, editor.cursor_pos)
                                              \o SubSeq(@, editor.cursor_pos + 2, Len(@))]
                      ELSE editor
      ]_vars

\* C24: Backspace at the end of the two-byte character followed by a made
\* String::remove panic at a byte offset inside the first character.
C24_BackspaceSplitCharacter ==
    /\ editor.status = "panic"
    /\ editor.by = "String::remove"
    /\ editor.held = <<"é", "a">>
    /\ editor.cursor_pos = 1

\* C25: Ctrl+C ends the read with Ok of the empty string whatever the buffer
\* held, with the buffer cleared and raw mode left; the process goes on.
C25_CtrlCReturnsEmpty ==
    [][(editor.status = "reading" /\ KeyCtrlC) =>
           /\ editor'.status = "ok"
           /\ editor'.result = <<>>
           /\ editor'.buffer = <<>> /\ editor'.cursor_pos = 0
           /\ ~editor'.raw_mode
      ]_vars

\* C25: Ctrl+C came while the buffer held characters, and the read returned
\* the empty string.
C25_CtrlCOnTypedLine ==
    /\ editor.status = "ok"
    /\ editor.by = "Ctrl+C"
    /\ editor.held # <<>>
    /\ editor.result = <<>>

\* C26: Ctrl+D on an empty buffer ends the process with raw mode disabled;
\* on any other buffer it changes nothing; the process ends in no other way.
C26_CtrlDExitsOnEmptyOnly ==
    [][/\ (editor.status = "reading" /\ KeyCtrlD) =>
              IF editor.buffer = <<>>
              THEN editor'.status = "exit" /\ ~editor'.raw_mode
              ELSE editor' = editor
       /\ (editor'.status = "exit" /\ editor.status # "exit") =>
              /\ editor.status = "reading"
              /\ editor.buffer = <<>>
              /\ ~editor'.raw_mode
      ]_vars

\* C26: Ctrl+D came on an empty buffer, after a line had been submitted, and
\* the process ended with raw mode disabled.
C26_ExitedInCookedMode ==
    /\ editor.status = "exit"
    /\ editor.by = "Ctrl+D"
    /\ ~editor.raw_mode
    /\ history.commands # <<>>

\* C27: Tab on a token that equals the only match of its branch leaves the
\* buffer and the cursor as they are and handle_tab_completion returns false.
C27_CompletionIdempotent ==
    [][(/\ editor.status = "reading"
        /\ KeyTab
        /\ TabToken(editor).token # <<>>
        /\ TabBranch(TabToken(editor)).m.ok
        /\ TabBranch(TabToken(editor)).m.matches =
               <<TabBranch(TabToken(editor)).typed>>) =>
           /\ editor'.buffer = editor.buffer
           /\ editor'.cursor_pos = editor.cursor_pos
           /\ editor'.tab = "false"
      ]_vars

\* C27: Tab was pressed at the end of aa, the only command that starts with
\* aa; the buffer is as it was and handle_tab_completion returned true.
C27_SoleMatchReportedChanged ==
    /\ editor.status = "reading"
    /\ editor.held = <<"a", "a">>
    /\ editor.buffer = <<"a", "a">>
    /\ editor.cursor_pos = 2
    /\ editor.tab = "true"

\* C28: when the common prefix of the matches is longer than the typed name
\* prefix, Tab replaces the token by a string that starts with the old token
\* and ends with the common prefix, leaves the text before and after the
\* token as it was, and puts the cursor at the end of the new token.
C28_TabExtendsToken ==
    [][(/\ editor.status = "reading"
        /\ KeyTab
        /\ TabToken(editor).token # <<>>
        /\ TabBranch(TabToken(editor)).m.ok
        /\ TabBranch(TabToken(editor)).m.matches # <<>>
        /\ Len(common_prefix(TabBranch(TabToken(editor)).m.matches))
               > Len(TabBranch(TabToken(editor)).typed)) =>
           /\ editor'.tab = "true"
           /\ editor'.cursor_pos <= Len(editor'.buffer)
           /\ SubSeq(editor'.buffer, 1, TabToken(editor).start)
                  = SubSeq(editor.buffer, 1, TabToken(editor).start)
           /\ SubSeq(editor'.buffer, editor'.cursor_pos + 1, Len(editor'.buffer))
                  = SubSeq(editor.buffer, editor.cursor_pos + 1, Len(editor.buffer))
           /\ StartsWith(SubSeq(editor'.buffer, TabToken(editor).start + 1,
                                editor'.cursor_pos),
                         TabToken(editor).token)
           /\ SubSeq(editor'.buffer,
                     editor'.cursor_pos + 1
                         - Len(common_prefix(TabBranch(TabToken(editor)).m.matches)),
                     editor'.cursor_pos)
                  = common_prefix(TabBranch(TabToken(editor)).m.matches)
      ]_vars

\* C28: Tab on /a, whose directory part is /, made //aa of it.
C28_RootTokenDoubledSlash ==
    /\ editor.status = "reading"
    /\ editor.held = <<"/", "a">>
    /\ editor.buffer = <<"/", "/", "a", "a">>
    /\ editor.tab = "true"

\* C31: every job of the table has status Running and holds its process
\* handle, after any add_job, update_jobs, remove_job, fg and bg: none is
\* Stopped and none is Done, so list_jobs and get_job never show a job that
\* update_jobs found exited.
C31_TableHoldsRunningOnly ==
    /\ \A id \in DOMAIN jobs :
           /\ jobs[id].status = "Running"
           /\ jobs[id].process
           /\ jobs[id].id = id
    /\ \A k \in 1..Len(list_jobs(jobs)) : list_jobs(jobs)[k].status = "Running"

\* C31: a pass of update_jobs has evicted one job, and a job whose process
\* has exited since the pass is still in the table, as Running.
C31_ExitedSincePass ==
    /\ pc = "read"
    /\ \E id \in DOMAIN done_update : done_update[id] = 1 /\ id \notin DOMAIN jobs
    /\ \E id \in DOMAIN jobs :
           /\ jobs[id].status = "Running"
           /\ procs[jobs[id].pid].state = "exited"

\* C32: fg and bg on an identifier that is not in the table leave the table,
\* the next identifier and the processes as they were and wait for nothing;
\* bg on a job of the table reports it found and leaves the table, the job
\* and its process as they were.
C32_AbsentIdChangesNothing ==
    [][/\ (ForegroundJob /\ ~get_job(jobs, line.cmd.job_id)) =>
              /\ jobs' = jobs /\ next_id' = next_id /\ procs' = procs
              /\ fg_job' = fg_job /\ pc' = "loop"
       /\ (ShellBuiltin /\ line.cmd.kind = "Bg") =>
              /\ jobs' = jobs /\ next_id' = next_id /\ procs' = procs
              /\ fg_job' = fg_job /\ pc' = "loop"
              /\ background_job(jobs, line.cmd.job_id).found
                     <=> line.cmd.job_id \in DOMAIN jobs
      ]_vars

\* C32: bg was run on job 1 while it was in the table, and the job is there
\* as before, with the next identifier still 2.
C32_BgOnPresentJob ==
    /\ input = L_bg
    /\ pc = "loop"
    /\ executed # <<>>
    /\ 1 \in DOMAIN jobs
    /\ jobs[1].status = "Running" /\ jobs[1].process
    /\ next_id = 2

\* C33: Down with no entry newer than the position (the history empty, no
\* entry selected, or the newest selected) clears the buffer, sets the cursor
\* to 0 and leaves the position at the number of entries; otherwise it loads
\* the next newer entry with the cursor at its end.
C33_DownClearsPastNewest ==
    [][KeyDown =>
           IF history.position + 1 >= Len(history.commands)
           THEN /\ editor' = [editor EXCEPT !.buffer = <<>>, !.cursor_pos = 0]
                /\ history' = [history EXCEPT !.position = Len(history.commands)]
           ELSE /\ editor' =
                       [editor EXCEPT
                           !.buffer = history.commands[history.position + 2],
                           !.cursor_pos = Len(history.commands[history.position + 2])]
                /\ history' = [history EXCEPT !.position = @ + 1]
      ]_vars

\* C33: Down was pressed on a typed a with no entry in the history; the
\* buffer was not cleared, History::next panicked.
C33_DownOnEmptyHistoryKeptBuffer ==
    /\ editor.status = "panic"
    /\ editor.by = "History::next"
    /\ editor.held = <<"a">>
    /\ editor.buffer = <<"a">>
    /\ history.commands = <<>>

\* C34: Ctrl+W with the cursor inside the buffer removes everything from the
\* start of the word before the cursor up to the cursor, the whitespace
\* between that word and the cursor included, leaves the text after the
\* cursor as it was and puts the cursor where the removed text began; at
\* cursor 0 it does nothing.
C34_CtrlWRemovesUpToCursor ==
    [][(KeyCtrlW /\ editor.cursor_pos <= Len(editor.buffer)) =>
           IF editor.cursor_pos = 0 THEN editor' = editor
           ELSE LET word_start ==
                        WordStart(editor.buffer,
                                  WordEnd(editor.buffer, editor.cursor_pos))
                IN  /\ editor'.buffer =
                           SubSeq(editor.buffer, 1, word_start)
                               \o SubSeq(editor.buffer, editor.cursor_pos + 1,
                                         Len(editor.buffer))
                    /\ editor'.cursor_pos = word_start
      ]_vars

\* C34: Ctrl+W came with the cursor after `a` and a space; the word went,
\* the space stayed and the cursor is at 0.
C34_SpaceLeftBehind ==
    /\ editor.status = "reading"
    /\ editor.by = "Ctrl+W"
    /\ editor.held = <<"a", " ">>
    /\ editor.buffer = <<" ">>
    /\ editor.cursor_pos = 0

\* C35: when read_line is entered for a new command the history position
\* equals the number of entries, whatever the earlier reads did: no entry is
\* selected.
C35_ReadStartsAtNewest ==
    [][ReadLineCalled => history.position = Len(history.commands)]_vars

\* C35: a read in which Up selected an entry ended with Ctrl+C, the loop
\* skipped the empty line, and the next read is about to start with that
\* entry still selected.
C35_EntrySelectedBetweenReads ==
    /\ editor.status = "idle"
    /\ history.commands # <<>>
    /\ history.position < Len(history.commands)

\* C36: the terminal is in raw mode exactly while read_line is reading keys:
\* raw mode is enabled only by the entry of read_line, from cooked mode, and
\* every way out of the read, with a line, with an error, by exit or by a
\* panic, leaves it disabled, so enabling and disabling alternate from read
\* to read.
C36_RawModeOnlyWhileReading ==
    [][/\ editor'.raw_mode <=> editor'.status = "reading"
       /\ (editor'.raw_mode /\ ~editor.raw_mode) =>
              ReadLineCalled /\ editor.status = "idle"
       /\ (editor.raw_mode /\ ~editor'.raw_mode) =>
              editor.status = "reading" /\ editor'.status # "reading"
      ]_vars

\* C36: a read after a submitted line ended with an I/O error, with text in
\* the buffer, and the terminal is in cooked mode.
C36_ErrorLeftCookedMode ==
    /\ editor.status = "err"
    /\ editor.by = "io"
    /\ editor.held # <<>>
    /\ ~editor.raw_mode
    /\ history.commands # <<>>

\* C37: a line whose only | stands inside a quoted argument is handled as a
\* single command: for `echo "a|b"` the loop never enters run_pipeline, and
\* when it has finished with the line it has run the one command echo with
\* the argument a|b.
C37_QuotedBarIsOneCommand ==
    input = L_echo_quoted_bar =>
        /\ ~line.pipeline
        /\ pc # "pipeline"
        /\ Finished(L_echo_quoted_bar) =>
               executed = <<Cmd("Echo", W_echo, <<<<"a", "|", "b">>>>, FALSE, 0)>>

\* C37: for `echo "a|b"` run_pipeline has spawned echo with the argument "a
\* and a pipe as its standard output.
C37_QuotedBarSplit ==
    /\ input = L_echo_quoted_bar
    /\ pc = "pipeline"
    /\ \E p \in DOMAIN procs :
           /\ procs[p].program = W_echo
           /\ procs[p].args = <<<<"\"", "a">>>>
           /\ procs[p].stdout.kind = "pipe"

\* C38: when a call of run_pipeline has left its spawn loop and waits, it
\* holds no pipe end in previous_stdout and the last stage it spawned has
\* the session's standard output, also for stage lists with empty stages.
C38_NoPipeHeldWhileWaiting ==
    \A r \in DOMAIN runs :
        (runs[r].i > Len(runs[r].commands) /\ runs[r].children # <<>>) =>
            /\ runs[r].previous_stdout = 0
            /\ procs[runs[r].children[Len(runs[r].children)]].stdout = StdioInherit

\* C38: for `sleep |` run_pipeline waits for sleep, whose standard output is
\* a pipe whose read end the call still holds.
C38_ReadEndHeldWhileWaiting ==
    /\ input = L_pipe_open
    /\ pc = "pipeline"
    /\ 0 \in DOMAIN runs
    /\ runs[0].i > Len(runs[0].commands)
    /\ runs[0].children # <<>>
    /\ runs[0].previous_stdout = runs[0].children[1]
    /\ procs[runs[0].children[1]].stdout.kind = "pipe"

\* the number of lines of s before its first line equal to the delimiter
\* (all of them when none is)
RECURSIVE BeforeDelimiter(_, _)
BeforeDelimiter(s, delimiter) ==
    IF s = <<>> \/ TrimEndMatches(Head(s), "\n") = delimiter THEN 0
    ELSE 1 + BeforeDelimiter(Tail(s), delimiter)

\* C39: the heredoc loop ends at the first line equal to the delimiter with
\* exactly the lines before it collected, in order; and at end-of-file,
\* with the delimiter never seen, it ends too, with the lines read so far.
C39_HeredocLoopStops ==
    [][HeredocReadLine =>
           /\ heredoc'.status = "done" =>
                  heredoc'.lines =
                      SubSeq(heredoc.input, 1,
                             BeforeDelimiter(heredoc.input, HeredocDelimiter))
           /\ heredoc.stdin = <<>> =>
                  heredoc'.status = "done" /\ heredoc'.lines = heredoc.lines
           /\ (heredoc.stdin # <<>>
                   /\ TrimEndMatches(Head(heredoc.stdin), "\n") = HeredocDelimiter)
                  => heredoc'.status = "done"
      ]_vars

\* C39: standard input ended after the line x without a delimiter line; the
\* loop is still reading and has pushed empty lines after it.
C39_ReadingPastEndOfFile ==
    /\ heredoc.status = "reading"
    /\ heredoc.input = <<<<"x", "\n">>>>
    /\ heredoc.stdin = <<>>
    /\ Len(heredoc.lines) >= 3
    /\ heredoc.lines[2] = <<>>

\* C40: when a read_line of read_input_with_continuation ends with Ctrl+C,
\* at the first prompt or at a continuation prompt, the submission ends
\* there and what is returned is blank, so that the run loop skips it:
\* no command is executed and no history entry is added for it.
C40_CtrlCCancelsSubmission ==
    (reader.lines # <<>> /\ reader.lines[Len(reader.lines)] = R_ctrl_c) =>
        /\ reader.why = "submit"
        /\ DispatchOf(reader.full_input).empty
        /\ HistoryAdd(history, LineTrimmed(reader.full_input)) = history

\* C40: Ctrl+C came at the continuation prompt after `a\`; the reader
\* returned `a` and a newline, which the run loop takes for the command a.
C40_ContinuationSubmitted ==
    /\ reader.lines = <<R_a_bs, R_ctrl_c>>
    /\ reader.why = "submit"
    /\ reader.full_input = <<"a", "\n">>
    /\ ~DispatchOf(reader.full_input).empty
    /\ DispatchOf(reader.full_input).cmd.program = <<"a">>

====
